---------------------------- MODULE Spec2Model ----------------------------
(***************************************************************************)
(* A model of the DEX parser of jaqxues/dex_tool (src/src/raw_dex.rs,      *)
(* src/src/m_utf8.rs, src/src/main.rs).                                    *)
(*                                                                         *)
(* The file behind the BufReader<File> is the byte sequence `image`; the   *)
(* reader's position is `pos` (0-based, as in Rust).  Every function of    *)
(* the parser is an operator or an action over (image, pos); its outcome   *)
(* is the record `ret`: kind "Ok" | "Err" | "panic", the value returned    *)
(* and the error or panic message.                                         *)
(*                                                                         *)
(* One specification per component:                                        *)
(*   SpecMutf8   m_utf8::to_string, one action per branch of its loop      *)
(*   SpecReads   read_u8 / read_u16 / read_u32 at any position of a file   *)
(*   SpecValue   EncodedValue::from_reader on one encoded_value            *)
(*   SpecClassData  parse_class_data on a file of class_data_items         *)
(*   SpecHeader  the header readers of raw_dex.rs and main.rs, and the     *)
(*               tables read once a header is accepted                     *)
(***************************************************************************)
EXTENDS Integers, Sequences, FiniteSets, TLC

VARIABLES
    image,              \* the bytes of the file behind the reader
    pos,                \* the reader's position in the file
    pc,                 \* where the running function stands
    ret,                \* its outcome
    start,              \* the reader's position when the function was entered
    size,               \* to_string: the declared number of UTF-16 code units
    s,                  \* to_string: code units decoded so far
    out,                \* to_string: the buffer vec![0u16; size]
    debug_assertions,   \* the build: TRUE for a debug build, FALSE for --release
    map_list,           \* the Vec<MapItem> handed to the section readers
    dex_header,         \* the DexHeader read from the file
    tables              \* the tables read so far, each with its name

vars == <<image, pos, pc, ret, start, size, s, out, debug_assertions,
          map_list, dex_header, tables>>

\* the file and the build
given == <<image, debug_assertions>>

\* what has been parsed and is handed on to the next reader
parsed == <<map_list, dex_header, tables>>

\* the locals of m_utf8::to_string
mutf8_locals == <<size, s, out>>

\* a specification that does not run to_string, or reads no table
NoMutf8 == size = 0 /\ s = 0 /\ out = <<>> /\ debug_assertions = FALSE

NoTables == map_list = <<>> /\ dex_header = <<>> /\ tables = <<>>

---------------------------------------------------------------------------
(* Bounds of the model.                                                    *)

\* longest MUTF-8 byte stream, terminator included
MaxStream == 5
\* largest declared code-unit count of a string
MaxDeclared == 3
\* longest file the fixed-width reads are tried on
MaxFile == 4
\* most payload bytes after the header byte of a scalar encoded_value
MaxPayload == 8
\* most bytes after the header byte of an encoded_array or encoded_annotation
MaxNested == 4

---------------------------------------------------------------------------
(* Integer helpers: Rust's bit operators on unsigned integers.             *)

Min(a, b) == IF a <= b THEN a ELSE b

Max(a, b) == IF a >= b THEN a ELSE b

RECURSIVE Pow2(_)
Pow2(n) == IF n = 0 THEN 1 ELSE 2 * Pow2(n - 1)

\* x & y
RECURSIVE BitAnd(_, _)
BitAnd(x, y) ==
    IF x = 0 \/ y = 0 THEN 0
    ELSE (x % 2) * (y % 2) + 2 * BitAnd(x \div 2, y \div 2)

\* x | y
RECURSIVE BitOr(_, _)
BitOr(x, y) ==
    IF x = 0 THEN y
    ELSE IF y = 0 THEN x
    ELSE (IF x % 2 = 1 \/ y % 2 = 1 THEN 1 ELSE 0) + 2 * BitOr(x \div 2, y \div 2)

\* x << n on a u16
Shl16(x, n) == (x * Pow2(n)) % 65536

\* the sequences over S of length 0..n
SeqUpTo(S, n) == UNION {[1..k -> S] : k \in 0..n}

\* b[from+1 .. from+n] of a sequence (0-based offset, like a Rust slice)
Slice(b, from, n) == [i \in 1..n |-> b[from + i]]

---------------------------------------------------------------------------
(* Outcomes.                                                               *)

NoRet == [kind |-> "none", val |-> <<>>, why |-> ""]
Ok(v) == [kind |-> "Ok", val |-> v, why |-> ""]
Err(v, w) == [kind |-> "Err", val |-> v, why |-> w]
Panic(v, w) == [kind |-> "panic", val |-> v, why |-> w]

---------------------------------------------------------------------------
(* The reader primitives of raw_dex.rs.                                    *)

\* a number of 2^31 or more (a u64 read as ULEB128, a u32 offset): TLC's
\* integers cannot hold it, the model keeps only that it is that large.  A
\* reader sought to such an offset stands past the end of every bounded file.
Wide == 0 - 1

\* Read::read_exact(buf) with buf.len() = n succeeds iff n bytes remain
CanReadExact(img, p, n) == p # Wide /\ p + n <= Len(img)

\* read_u8: reader.read_exact(buf)?; Ok(buf[0])
read_u8_ok(img, p) == CanReadExact(img, p, 1)
read_u8(img, p) == img[p + 1]

\* Read::read(&mut buf) with buf.len() = n: the number of bytes copied.  A
\* BufReader over a file copies what is left of the file, at most n.  (A
\* bounded file lies within one fill of the reader's buffer.)
ReadCount(img, p, n) ==
    IF p = Wide \/ p >= Len(img) THEN 0 ELSE Min(n, Len(img) - p)

\* the buffer [0u8; n] after Read::read: bytes not read stay 0
ReadBuf(img, p, n) ==
    [i \in 1..n |-> IF p # Wide /\ p + i <= Len(img) THEN img[p + i] ELSE 0]

\* u16::from_le_bytes(buf)
u16_from_le_bytes(buf) == buf[1] + 256 * buf[2]

\* u32::from_le_bytes(buf), i32::, u64::, i64::, f32::, f64::from_le_bytes(buf).
\* TLC's integers are 32 bits wide, so a number of 32 bits or more is kept as
\* its bytes, least significant first (a signed one in two's complement, a
\* float as its IEEE-754 bit pattern): a "word".
from_le_bytes(buf) == buf

\* uN::from_be_bytes(buf)
from_be_bytes(buf) == [i \in 1..Len(buf) |-> buf[Len(buf) + 1 - i]]

\* let mut buf = [0u8; 2]; reader.read(&mut buf)?; Ok(u16::from_le_bytes(buf))
read_u16(img, p) ==
    [kind |-> "Ok", val |-> u16_from_le_bytes(ReadBuf(img, p, 2)),
     pos |-> p + ReadCount(img, p, 2)]

\* let mut buf = [0u8; 4]; reader.read(&mut buf)?; Ok(u32::from_le_bytes(buf))
read_u32(img, p) ==
    [kind |-> "Ok", val |-> from_le_bytes(ReadBuf(img, p, 4)),
     pos |-> p + ReadCount(img, p, 4)]

\* main.rs: reader.read(&mut buf).unwrap(); u32::from_le_bytes(buf)
main_read_u32(img, p) == read_u32(img, p)

---------------------------------------------------------------------------
(* leb128::read::unsigned, as the parser calls it.                         *)

\* result | (low_bits << shift), for low_bits < 128 and result < 2^shift
UlebAccumulate(acc, low, shift) ==
    IF low = 0 THEN acc
    ELSE IF acc = Wide \/ shift >= 31 THEN Wide
    ELSE IF low >= Pow2(Min(31 - shift, 7)) THEN Wide
    ELSE acc + low * Pow2(shift)

\* the loop of leb128::read::unsigned: one byte per turn by read_exact, 7 bits
\* of it shifted into the result, until a byte without the continuation bit;
\* Err(IoError) at the end of the file, Err(Overflow) on a tenth byte other
\* than 0x00 and 0x01
RECURSIVE UlebLoop(_, _, _, _)
UlebLoop(img, p, shift, acc) ==
    IF ~read_u8_ok(img, p)
      THEN [kind |-> "Err", val |-> 0, pos |-> IF p = Wide THEN Wide ELSE Max(p, Len(img)),
            why |-> "IoError"]
    ELSE LET byte == img[p + 1] IN
      IF shift = 63 /\ byte # 0 /\ byte # 1
        THEN [kind |-> "Err", val |-> 0, pos |-> p + 1, why |-> "Overflow"]
      ELSE IF BitAnd(byte, 128) = 0
        THEN [kind |-> "Ok", val |-> UlebAccumulate(acc, BitAnd(byte, 127), shift),
              pos |-> p + 1, why |-> ""]
      ELSE UlebLoop(img, p + 1, shift + 7, UlebAccumulate(acc, BitAnd(byte, 127), shift))

read_unsigned(img, p) == UlebLoop(img, p, 0, 0)

---------------------------------------------------------------------------
(* EncodedValue::from_reader and EncodedAnnotation::from_reader.           *)

EV(tag, v) == [tag |-> tag, v |-> v]

Done(kind, val, p, why) == [kind |-> kind, val |-> val, pos |-> p, why |-> why]

\* let mut buf = [0u8; n]; reader.read_exact(&mut buf)?; T::from_le_bytes(buf)
ReadExactWord(img, p, n, tag) ==
    IF CanReadExact(img, p, n)
      THEN Done("Ok", EV(tag, from_le_bytes(Slice(img, p, n))), p + n, "")
      ELSE Done("Err", <<>>, Len(img), "UnexpectedEof")

\* EncodedValue::X(read_u32(reader)?)
ReadU32Value(img, p, tag) ==
    Done("Ok", EV(tag, read_u32(img, p).val), read_u32(img, p).pos, "")

\* leb128::read::unsigned(reader).unwrap()
UnwrapPanic(r) == Done("panic", <<>>, r.pos, "unwrap on Err")

\* Vec::with_capacity(size as usize) with 2^31 or more elements
AllocPanic(p) == Done("panic", <<>>, p, "memory allocation failed")

RECURSIVE value_from_reader(_, _)
RECURSIVE array_elements(_, _, _, _)
RECURSIVE annotation_elements(_, _, _, _)
RECURSIVE annotation_from_reader(_, _)

\* for _ in 0..size { v.push(EncodedValue::from_reader(reader)?) }
array_elements(img, p, n, v) ==
    IF n = 0 THEN Done("Ok", v, p, "")
    ELSE LET r == value_from_reader(img, p) IN
         IF r.kind # "Ok" THEN r
         ELSE array_elements(img, r.pos, n - 1, Append(v, r.val))

\* for _ in 0..size { v.push(AnnotationElement { name_idx: ..unwrap(), value: ..? }) }
annotation_elements(img, p, n, v) ==
    IF n = 0 THEN Done("Ok", v, p, "")
    ELSE LET name_idx == read_unsigned(img, p) IN
         IF name_idx.kind # "Ok" THEN UnwrapPanic(name_idx)
         ELSE LET r == value_from_reader(img, name_idx.pos) IN
              IF r.kind # "Ok" THEN r
              ELSE annotation_elements(img, r.pos, n - 1,
                       Append(v, [name_idx |-> name_idx.val, value |-> r.val]))

\* EncodedAnnotation::from_reader
annotation_from_reader(img, p) ==
    LET type_idx == read_unsigned(img, p) IN
    IF type_idx.kind # "Ok" THEN UnwrapPanic(type_idx)
    ELSE LET sz == read_unsigned(img, type_idx.pos) IN
         IF sz.kind # "Ok" THEN UnwrapPanic(sz)
         ELSE IF sz.val = Wide THEN AllocPanic(sz.pos)
         ELSE LET r == annotation_elements(img, sz.pos, sz.val, <<>>) IN
              IF r.kind # "Ok" THEN r
              ELSE Done("Ok", [type_idx |-> type_idx.val, elements |-> r.val], r.pos, "")

\* EncodedValue::from_reader
value_from_reader(img, p) ==
    IF ~read_u8_ok(img, p) THEN Done("Err", <<>>, Len(img), "UnexpectedEof")
    ELSE
    LET byte == read_u8(img, p)
        value_arg == BitAnd(byte, 224) \div 32
        value_type == BitAnd(byte, 31)
        q == p + 1
    IN  CASE value_type = 0 ->
               IF read_u8_ok(img, q)
                 THEN Done("Ok", EV("Byte", read_u8(img, q)), q + 1, "")
                 ELSE Done("Err", <<>>, Len(img), "UnexpectedEof")
          [] value_type = 2 -> ReadExactWord(img, q, 2, "Short")
          [] value_type = 3 ->
               Done("Ok", EV("Char", read_u16(img, q).val), read_u16(img, q).pos, "")
          [] value_type = 4 -> ReadExactWord(img, q, 4, "Int")
          [] value_type = 6 -> ReadExactWord(img, q, 8, "Long")
          [] value_type = 16 -> ReadExactWord(img, q, 4, "Float")
          [] value_type = 17 -> ReadExactWord(img, q, 8, "Double")
          [] value_type = 21 -> ReadU32Value(img, q, "MethodType")
          [] value_type = 22 -> ReadU32Value(img, q, "MethodHandle")
          [] value_type = 23 -> ReadU32Value(img, q, "String")
          [] value_type = 24 -> ReadU32Value(img, q, "Type")
          [] value_type = 25 -> ReadU32Value(img, q, "Field")
          [] value_type = 26 -> ReadU32Value(img, q, "Method")
          [] value_type = 27 -> ReadU32Value(img, q, "Enum")
          [] value_type = 28 ->
               LET sz == read_unsigned(img, q) IN
               IF sz.kind # "Ok" THEN UnwrapPanic(sz)
               ELSE IF sz.val = Wide THEN AllocPanic(sz.pos)
               ELSE LET r == array_elements(img, sz.pos, sz.val, <<>>) IN
                    IF r.kind # "Ok" THEN r
                    ELSE Done("Ok", EV("Array", r.val), r.pos, "")
          [] value_type = 29 ->
               LET r == annotation_from_reader(img, q) IN
               IF r.kind # "Ok" THEN r
               ELSE Done("Ok", EV("Annotation", r.val), r.pos, "")
          [] value_type = 30 -> Done("Ok", EV("Null", <<>>), q, "")
          [] value_type = 31 -> Done("Ok", EV("Boolean", value_arg # 0), q, "")
          [] OTHER -> Done("panic", <<>>, q, "Unknown value bits for encoded value")

---------------------------------------------------------------------------
(* The map list and parse_class_data.                                      *)

\* a u32 below 2^31 as a word, and a word as a number (Wide from 2^31 on)
U32(n) == <<n % 256, (n \div 256) % 256, (n \div 65536) % 256, n \div 16777216>>

WordVal(w) ==
    IF w[4] >= 128 THEN Wide
    ELSE w[1] + 256 * w[2] + 65536 * w[3] + 16777216 * w[4]

MapItem(item_type, sz, offset) ==
    [item_type |-> item_type, size |-> sz, offset |-> offset]

\* Option<&MapItem>: <<>> is None, <<it>> is Some(it); the first match wins
find_type_in_map(ml, item_type) ==
    LET hits == {i \in 1..Len(ml) : ml[i].item_type = item_type}
    IN  IF hits = {} THEN <<>>
        ELSE <<ml[CHOOSE i \in hits : \A j \in hits : i <= j]>>

\* F applied to the value of e, e being computed once: a let binding of the
\* code, whose right-hand side runs (and moves the reader) exactly once
Bind(e, F(_)) == CHOOSE y \in {F(x) : x \in {e}} : TRUE

\* leb128::read::unsigned(reader).unwrap(), then F on the number and on the
\* position after it
Unwrapped(img, p, F(_, _)) ==
    Bind(read_unsigned(img, p),
         LAMBDA r : IF r.kind # "Ok" THEN UnwrapPanic(r) ELSE F(r.val, r.pos))

\* for _ in 0..n { fields.push(read_encoded_field(reader)) }
RECURSIVE read_encoded_fields(_, _, _, _)
read_encoded_fields(img, p, n, v) ==
    IF n = 0 THEN Done("Ok", v, p, "")
    ELSE Unwrapped(img, p, LAMBDA field_idx_diff, p1 :
         Unwrapped(img, p1, LAMBDA access_flags, p2 :
         read_encoded_fields(img, p2, n - 1,
             Append(v, [field_idx_diff |-> field_idx_diff,
                        access_flags |-> access_flags]))))

\* for _ in 0..n { methods.push(read_encoded_method(reader)) }
RECURSIVE read_encoded_methods(_, _, _, _)
read_encoded_methods(img, p, n, v) ==
    IF n = 0 THEN Done("Ok", v, p, "")
    ELSE Unwrapped(img, p, LAMBDA method_idx_diff, p1 :
         Unwrapped(img, p1, LAMBDA access_flags, p2 :
         Unwrapped(img, p2, LAMBDA code_off, p3 :
         read_encoded_methods(img, p3, n - 1,
             Append(v, [method_idx_diff |-> method_idx_diff,
                        access_flags |-> access_flags,
                        code_off |-> code_off])))))

\* r when it is a failure, F on its value and position when it is Ok: the
\* inner loops of parse_class_data one after the other
Then(r, F(_, _)) ==
    Bind(r, LAMBDA x : IF x.kind # "Ok" THEN x ELSE F(x.val, x.pos))

\* one turn of the outer loop of parse_class_data: the four sizes, the four
\* Vec::with_capacity, the four inner loops
class_data_item(img, p) ==
    Unwrapped(img, p, LAMBDA static_fields_size, p1 :
    Unwrapped(img, p1, LAMBDA instance_fields_size, p2 :
    Unwrapped(img, p2, LAMBDA direct_methods_size, p3 :
    Unwrapped(img, p3, LAMBDA virtual_methods_size, p4 :
    IF Wide \in {static_fields_size, instance_fields_size,
                 direct_methods_size, virtual_methods_size}
      THEN AllocPanic(p4)
    ELSE
    Then(read_encoded_fields(img, p4, static_fields_size, <<>>),
         LAMBDA static_fields, p5 :
    Then(read_encoded_fields(img, p5, instance_fields_size, <<>>),
         LAMBDA instance_fields, p6 :
    Then(read_encoded_methods(img, p6, direct_methods_size, <<>>),
         LAMBDA direct_methods, p7 :
    Then(read_encoded_methods(img, p7, virtual_methods_size, <<>>),
         LAMBDA virtual_methods, p8 :
    Done("Ok", [static_fields |-> static_fields,
                instance_fields |-> instance_fields,
                direct_methods |-> direct_methods,
                virtual_methods |-> virtual_methods], p8, "")))))))))

\* for _ in 0..item.size { ... v.push(ClassData { .. }) }
RECURSIVE class_data_items(_, _, _, _)
class_data_items(img, p, n, v) ==
    IF n = 0 THEN Done("Ok", v, p, "")
    ELSE Then(class_data_item(img, p),
              LAMBDA c, q : class_data_items(img, q, n - 1, Append(v, c)))

\* parse_class_data(map_list, reader); p is where the reader stands before
parse_class_data(ml, img, p) ==
    LET item == find_type_in_map(ml, 8192) IN
    IF item = <<>> THEN Done("panic", <<>>, p, "No Class Data Offset Found")
    ELSE IF WordVal(item[1].size) = Wide THEN AllocPanic(WordVal(item[1].offset))
    ELSE class_data_items(img, WordVal(item[1].offset), WordVal(item[1].size), <<>>)

---------------------------------------------------------------------------
(* The header: raw_dex.rs DexHeader, and the DexHeader of main.rs.         *)

\* "dex\n039\0"
DEX_FILE_MAGIC == <<100, 101, 120, 10, 48, 51, 57, 0>>

\* 0x12345678 and 0x78563412 as words
ENDIAN_CONSTANT == <<120, 86, 52, 18>>

REVERSE_ENDIAN_CONSTANT == <<18, 52, 86, 120>>

\* main.rs
SUPPORTED_DEX_VERSIONS == {35, 37, 38, 39}

\* <[u8]>::starts_with and ends_with
starts_with(buf, needle) ==
    Len(buf) >= Len(needle) /\ SubSeq(buf, 1, Len(needle)) = needle

ends_with(buf, needle) ==
    Len(buf) >= Len(needle)
      /\ SubSeq(buf, Len(buf) - Len(needle) + 1, Len(buf)) = needle

IsAsciiDigit(b) == 48 <= b /\ b <= 57

\* the number a string of ASCII digits spells
RECURSIVE DecimalValue(_)
DecimalValue(digits) ==
    IF digits = <<>> THEN 0
    ELSE 10 * DecimalValue(SubSeq(digits, 1, Len(digits) - 1))
           + (digits[Len(digits)] - 48)

\* String::from_utf8_lossy(bytes).parse::<u16>() on at most 4 bytes: an
\* optional '+', then one digit or more; any other byte (a byte that is not
\* ASCII becomes U+FFFD) is an error.  <<n>> is Ok(n), <<>> is Err.
parse_u16(bytes) ==
    LET digits == IF bytes # <<>> /\ bytes[1] = 43 THEN Tail(bytes) ELSE bytes
    IN  IF digits = <<>> \/ \E i \in 1..Len(digits) : ~IsAsciiDigit(digits[i])
          THEN <<>>
          ELSE <<DecimalValue(digits)>>

\* DexHeader::verify_magic(buf), with the message of its .expect()
VerifyMagicWith(buf, expect) ==
    IF ~(starts_with(buf, SubSeq(DEX_FILE_MAGIC, 1, 5))
           /\ ends_with(buf, SubSeq(DEX_FILE_MAGIC, 8, 8)))
      THEN Panic(<<>>, "Given file does not contain correct file signature")
    ELSE IF parse_u16(SubSeq(buf, 5, 7)) = <<>> THEN Panic(<<>>, expect)
    ELSE Ok(parse_u16(SubSeq(buf, 5, 7))[1])

\* raw_dex.rs
verify_magic(buf) == VerifyMagicWith(buf, "Version number could not be parsed")

\* main.rs
main_verify_magic(buf) == VerifyMagicWith(buf, "Could not parse Version number")

\* raw_dex.rs DexHeader::verify_endian with a wildcard arm that resolves instead
\* of panicking
verify_endian_any_tag(val) ==
    CASE val = ENDIAN_CONSTANT -> Ok("LE")
      [] val = REVERSE_ENDIAN_CONSTANT -> Ok("BE")
      [] OTHER -> Ok("LE")

\* raw_dex.rs DexHeader::verify_endian
verify_endian(val) ==
    CASE val = ENDIAN_CONSTANT -> Ok("LE")
      [] val = REVERSE_ENDIAN_CONSTANT -> Ok("BE")
      [] OTHER -> Panic(<<>>, "Bytes do not match valid constants")

\* main.rs DexHeader::verify_endian: true for the reverse constant
main_verify_endian(val) ==
    CASE val = ENDIAN_CONSTANT -> Ok(FALSE)
      [] val = REVERSE_ENDIAN_CONSTANT -> Ok(TRUE)
      [] OTHER -> Panic(<<>>, "Bytes do not match valid constants")

\* the fields of HeaderFields with map_off read before link_size and link_off
HeaderFieldsMapOffFirst ==
    <<"file_size", "header_size", "endian_tag", "map_off", "link_size",
      "link_off", "string_ids_size", "string_ids_off", "type_ids_size",
      "type_ids_off", "proto_ids_size", "proto_ids_off", "field_ids_size",
      "field_ids_off", "method_ids_size", "method_ids_off", "class_defs_size",
      "class_defs_off", "data_size", "data_off">>

\* the u32 fields of the struct literal after signature, in its order
HeaderFields ==
    <<"file_size", "header_size", "endian_tag", "link_size", "link_off",
      "map_off", "string_ids_size", "string_ids_off", "type_ids_size",
      "type_ids_off", "proto_ids_size", "proto_ids_off", "field_ids_size",
      "field_ids_off", "method_ids_size", "method_ids_off", "class_defs_size",
      "class_defs_off", "data_size", "data_off">>

\* raw_dex.rs from_reader, fields k.. : each read_u32(reader)?, and
\* verify_endian(tag) as soon as the tag is read
RECURSIVE header_fields(_, _, _, _)
header_fields(img, p, k, h) ==
    IF k > Len(HeaderFields) THEN Done("Ok", h, p, "")
    ELSE Bind(read_u32(img, p), LAMBDA r :
         IF HeaderFields[k] = "endian_tag" /\ verify_endian(r.val).kind = "panic"
           THEN Done("panic", <<>>, r.pos, verify_endian(r.val).why)
           ELSE header_fields(img, r.pos, k + 1, h @@ (HeaderFields[k] :> r.val)))

\* raw_dex.rs DexHeader::from_reader
from_reader(img, p) ==
    IF ~CanReadExact(img, p, 8) THEN Done("Err", <<>>, Len(img), "UnexpectedEof")
    ELSE IF verify_magic(Slice(img, p, 8)).kind = "panic"
      THEN Done("panic", <<>>, p + 8, verify_magic(Slice(img, p, 8)).why)
    ELSE Bind(read_u32(img, p + 8), LAMBDA checksum :
         IF ~CanReadExact(img, checksum.pos, 20)
           THEN Done("Err", <<>>, Len(img), "UnexpectedEof")
           ELSE header_fields(img, checksum.pos + 20, 1,
                    [magic |-> Slice(img, p, 8), checksum |-> checksum.val,
                     signature |-> Slice(img, checksum.pos, 20)]))

\* main.rs from_reader, fields k.. : each read_u32(reader)
RECURSIVE main_header_fields(_, _, _, _)
main_header_fields(img, p, k, h) ==
    IF k > Len(HeaderFields) THEN Done("Ok", h, p, "")
    ELSE Bind(main_read_u32(img, p), LAMBDA r :
         main_header_fields(img, r.pos, k + 1, h @@ (HeaderFields[k] :> r.val)))

\* main.rs DexHeader::from_reader: reader.read(..).unwrap() for the magic and
\* the signature, verify_endian once the whole header is read
main_from_reader(img, p) ==
    IF main_verify_magic(ReadBuf(img, p, 8)).kind = "panic"
      THEN Done("panic", <<>>, p + ReadCount(img, p, 8),
                main_verify_magic(ReadBuf(img, p, 8)).why)
    ELSE Bind(main_read_u32(img, p + ReadCount(img, p, 8)), LAMBDA checksum :
         Bind(main_header_fields(img, checksum.pos + ReadCount(img, checksum.pos, 20), 1,
                  [magic |-> ReadBuf(img, p, 8), checksum |-> checksum.val,
                   signature |-> ReadBuf(img, checksum.pos, 20)]),
              LAMBDA header :
         IF main_verify_endian(header.val.endian_tag).kind = "panic"
           THEN Done("panic", <<>>, header.pos,
                     main_verify_endian(header.val.endian_tag).why)
           ELSE header))

\* src.gread_with::<u32>(offset, endian): <<word>>, or <<>> for Err(scroll::Error)
gread_with(src, offset, endian) ==
    IF offset + 4 > Len(src) THEN <<>>
    ELSE IF endian = "LE" THEN <<from_le_bytes(Slice(src, offset, 4))>>
    ELSE <<from_be_bytes(Slice(src, offset, 4))>>

\* DexHeader::get_endian(mmap)
get_endian(mmap) ==
    IF gread_with(mmap, 40, "LE") = <<>> THEN Panic(<<>>, "unwrap on Err")
    ELSE verify_endian(gread_with(mmap, 40, "LE")[1])

\* try_from_ctx, fields k..
RECURSIVE ctx_header_fields(_, _, _, _, _)
ctx_header_fields(src, offset, endian, k, h) ==
    IF k > Len(HeaderFields) THEN Done("Ok", <<h, offset>>, offset, "")
    ELSE Bind(gread_with(src, offset, endian), LAMBDA r :
         IF r = <<>> THEN Done("Err", <<>>, offset, "scroll::Error")
         ELSE IF HeaderFields[k] = "endian_tag" /\ verify_endian(r[1]).kind = "panic"
           THEN Done("panic", <<>>, offset + 4, verify_endian(r[1]).why)
           ELSE ctx_header_fields(src, offset + 4, endian, k + 1,
                                  h @@ (HeaderFields[k] :> r[1])))

\* <DexHeader as TryFromCtx<EndianContext>>::try_from_ctx(src, ctx)
try_from_ctx(src, endian) ==
    IF Len(src) < 8 THEN Done("panic", <<>>, 0, "range end index out of range")
    ELSE IF verify_magic(Slice(src, 0, 8)).kind = "panic"
      THEN Done("panic", <<>>, 8, verify_magic(Slice(src, 0, 8)).why)
    ELSE IF gread_with(src, 8, endian) = <<>>
      THEN Done("Err", <<>>, 8, "scroll::Error")
    ELSE IF Len(src) < 32 THEN Done("panic", <<>>, 12, "range end index out of range")
    ELSE ctx_header_fields(src, 32, endian, 1,
             [magic |-> Slice(src, 0, 8), checksum |-> gread_with(src, 8, endian)[1],
              signature |-> Slice(src, 12, 20)])

\* for _ in 0..size { v.push(MapItem { item_type, size, offset }) }
RECURSIVE map_items(_, _, _, _)
map_items(img, p, n, v) ==
    IF n = 0 THEN Done("Ok", v, p, "")
    ELSE Bind(read_u16(img, p), LAMBDA item_type :
         Bind(read_u16(img, item_type.pos), LAMBDA unused :
         Bind(read_u32(img, unused.pos), LAMBDA sz :
         Bind(read_u32(img, sz.pos), LAMBDA offset :
         map_items(img, offset.pos, n - 1,
                   Append(v, MapItem(item_type.val, sz.val, offset.val)))))))

\* MapItem::parse_map_list(dex_header, reader)
parse_map_list(header, img) ==
    Bind(read_u32(img, WordVal(header.map_off)), LAMBDA sz :
         IF WordVal(sz.val) = Wide THEN AllocPanic(sz.pos)
         ELSE map_items(img, sz.pos, WordVal(sz.val), <<>>))

---------------------------------------------------------------------------
(* The fixed tables of raw_dex.rs, each read at the offset and with the    *)
(* count the header gives.                                                 *)

\* for _ in 0..n { v.push(read_u32(reader)?) }
RECURSIVE read_u32s(_, _, _, _)
read_u32s(img, p, n, v) ==
    IF n = 0 THEN Done("Ok", v, p, "")
    ELSE Bind(read_u32(img, p), LAMBDA r :
         read_u32s(img, r.pos, n - 1, Append(v, r.val)))

\* the fields of one struct literal, read_u16(reader)? for a width of 2 and
\* read_u32(reader)? for a width of 4, in the order written
RECURSIVE read_values(_, _, _, _)
read_values(img, p, widths, vals) ==
    IF widths = <<>> THEN Done("Ok", vals, p, "")
    ELSE Bind(IF Head(widths) = 2 THEN read_u16(img, p) ELSE read_u32(img, p),
              LAMBDA r : read_values(img, r.pos, Tail(widths), Append(vals, r.val)))

\* the struct with the given field names and values
Struct(names, vals) ==
    [f \in {names[i] : i \in 1..Len(names)} |->
        vals[CHOOSE i \in 1..Len(names) : names[i] = f]]

\* for _ in 0..n { v.push(X { a: read_..(reader)?, .. }) }
RECURSIVE read_structs(_, _, _, _, _, _)
read_structs(img, p, n, names, widths, v) ==
    IF n = 0 THEN Done("Ok", v, p, "")
    ELSE Bind(read_values(img, p, widths, <<>>), LAMBDA r :
         read_structs(img, r.pos, n - 1, names, widths,
                      Append(v, Struct(names, r.val))))

\* reader.seek(Start(off.into()))?; Vec::with_capacity(count as usize); the
\* loop over 0..count
FixedTable(img, off, count, names, widths) ==
    IF WordVal(count) = Wide THEN AllocPanic(WordVal(off))
    ELSE read_structs(img, WordVal(off), WordVal(count), names, widths, <<>>)

parse_string_ids(header, img) ==
    IF WordVal(header.string_ids_size) = Wide
      THEN AllocPanic(WordVal(header.string_ids_off))
    ELSE read_u32s(img, WordVal(header.string_ids_off),
                   WordVal(header.string_ids_size), <<>>)

parse_type_ids(header, img) ==
    IF WordVal(header.type_ids_size) = Wide
      THEN AllocPanic(WordVal(header.type_ids_off))
    ELSE read_u32s(img, WordVal(header.type_ids_off),
                   WordVal(header.type_ids_size), <<>>)

parse_proto_ids(header, img) ==
    FixedTable(img, header.proto_ids_off, header.proto_ids_size,
               <<"shorty_idx", "return_type_idx", "parameters_off">>, <<4, 4, 4>>)

parse_field_ids(header, img) ==
    FixedTable(img, header.field_ids_off, header.field_ids_size,
               <<"class_idx", "type_idx", "name_idx">>, <<2, 2, 4>>)

parse_method_ids(header, img) ==
    FixedTable(img, header.method_ids_off, header.method_ids_size,
               <<"class_idx", "proto_idx", "name_idx">>, <<2, 2, 4>>)

parse_class_defs(header, img) ==
    FixedTable(img, header.class_defs_off, header.class_defs_size,
               <<"class_idx", "access_flags", "superclass_idx", "interfaces_off",
                 "source_file_idx", "annotations_off", "class_data_off",
                 "static_values_off">>, <<4, 4, 4, 4, 4, 4, 4, 4>>)

---------------------------------------------------------------------------
(* The tables main.rs reads once the header is accepted.                   *)

\* a < b and a + b for u32 words; the sum with its carry out of 32 bits
WordLess(a, b) ==
    \E i \in 1..4 : a[i] < b[i] /\ \A j \in (i + 1)..4 : a[j] = b[j]

RECURSIVE WordAddFrom(_, _, _, _)
WordAddFrom(a, b, i, carry) ==
    IF i > 4 THEN <<carry>>
    ELSE <<(a[i] + b[i] + carry) % 256>>
           \o WordAddFrom(a, b, i + 1, (a[i] + b[i] + carry) \div 256)

WordAdd(a, b) == WordAddFrom(a, b, 1, 0)

\* for _ in 0..n { v.push(read_u32(reader)) }
RECURSIVE main_read_u32s(_, _, _, _)
main_read_u32s(img, p, n, v) ==
    IF n = 0 THEN Done("Ok", v, p, "")
    ELSE Bind(main_read_u32(img, p), LAMBDA r :
         main_read_u32s(img, r.pos, n - 1, Append(v, r.val)))

\* String::from_utf8(v).is_ok(): well-formed UTF-8 (no overlong form, no
\* surrogate, nothing above U+10FFFF)
RECURSIVE Utf8Valid(_)
Utf8Valid(v) ==
    LET n == Len(v)
        cont(i) == i <= n /\ 128 <= v[i] /\ v[i] <= 191
        rest(k) == Utf8Valid(SubSeq(v, k + 1, n))
    IN  IF n = 0 THEN TRUE
        ELSE IF v[1] <= 127 THEN rest(1)
        ELSE IF 194 <= v[1] /\ v[1] <= 223 THEN cont(2) /\ rest(2)
        ELSE IF 224 <= v[1] /\ v[1] <= 239
          THEN /\ cont(2) /\ cont(3)
               /\ (v[1] = 224 => v[2] >= 160)
               /\ (v[1] = 237 => v[2] <= 159)
               /\ rest(3)
        ELSE IF 240 <= v[1] /\ v[1] <= 244
          THEN /\ cont(2) /\ cont(3) /\ cont(4)
               /\ (v[1] = 240 => v[2] >= 144)
               /\ (v[1] = 244 => v[2] <= 143)
               /\ rest(4)
        ELSE FALSE

\* the body of the second loop of parse_strings for one string_data_off
main_string_at(header, img, dbg, p0, string_data_off) ==
    IF dbg /\ WordAdd(header.data_off, header.data_size)[5] = 1
      THEN Done("panic", <<>>, p0, "attempt to add with overflow")
    ELSE IF dbg /\ ~(/\ WordLess(header.data_off, string_data_off)
                     /\ WordLess(string_data_off,
                            SubSeq(WordAdd(header.data_off, header.data_size), 1, 4)))
      THEN Done("panic", <<>>, p0, "Offset location was not in data section")
    ELSE Unwrapped(img, WordVal(string_data_off), LAMBDA sz, p :
         IF sz = Wide THEN AllocPanic(p)
         ELSE IF ~CanReadExact(img, p, sz)
           THEN Done("panic", <<>>, Len(img), "unwrap on Err")
         ELSE Done("Ok", IF Utf8Valid(Slice(img, p, sz)) THEN Slice(img, p, sz) ELSE <<>>,
                   p + sz, ""))

\* for string_data_off in string_ids { ... strings.push(string) }
RECURSIVE main_strings(_, _, _, _, _, _)
main_strings(header, img, dbg, p, string_ids, strings) ==
    IF string_ids = <<>> THEN Done("Ok", strings, p, "")
    ELSE Then(main_string_at(header, img, dbg, p, Head(string_ids)),
              LAMBDA string, q :
              main_strings(header, img, dbg, q, Tail(string_ids), Append(strings, string)))

\* main.rs parse_strings(dex_header, reader)
parse_strings(header, img, dbg) ==
    IF WordVal(header.string_ids_size) = Wide
      THEN AllocPanic(WordVal(header.string_ids_off))
    ELSE Then(main_read_u32s(img, WordVal(header.string_ids_off),
                             WordVal(header.string_ids_size), <<>>),
              LAMBDA string_ids, p : main_strings(header, img, dbg, p, string_ids, <<>>))

\* main.rs parse_types(dex_header, reader)
parse_types(header, img) ==
    IF WordVal(header.type_ids_size) = Wide
      THEN AllocPanic(WordVal(header.type_ids_off))
    ELSE main_read_u32s(img, WordVal(header.type_ids_off),
                        WordVal(header.type_ids_size), <<>>)

\* for _ in 0..n { v.push(ProtoIdItem { .. }) }
RECURSIVE main_protos(_, _, _, _)
main_protos(img, p, n, v) ==
    IF n = 0 THEN Done("Ok", v, p, "")
    ELSE Bind(main_read_u32(img, p), LAMBDA shorty_idx :
         Bind(main_read_u32(img, shorty_idx.pos), LAMBDA return_type_idx :
         Bind(main_read_u32(img, return_type_idx.pos), LAMBDA parameters_off :
         main_protos(img, parameters_off.pos, n - 1,
             Append(v, [shorty_idx |-> shorty_idx.val,
                        return_type_idx |-> return_type_idx.val,
                        parameters_off |-> parameters_off.val])))))

\* main.rs parse_protos(dex_header, reader)
parse_protos(header, img) ==
    IF WordVal(header.proto_ids_size) = Wide
      THEN AllocPanic(WordVal(header.proto_ids_off))
    ELSE main_protos(img, WordVal(header.proto_ids_off),
                     WordVal(header.proto_ids_size), <<>>)

\* main(), lines 24 to 31: the header, its version, its endianness; the value
\* is the header, and the version that is printed
main_header(img, p) ==
    Bind(main_from_reader(img, p), LAMBDA r :
    IF r.kind # "Ok" THEN r
    ELSE IF main_verify_magic(r.val.magic).val \notin SUPPORTED_DEX_VERSIONS
      THEN Done("panic", <<>>, r.pos, "Unsupported Dex Format Version")
    ELSE IF main_verify_endian(r.val.endian_tag).val
      THEN Done("panic", <<>>, r.pos,
                "Dex Files with reverse endian tag are not supported")
    ELSE Done("Ok", <<r.val, main_verify_magic(r.val.magic).val>>, r.pos, ""))

---------------------------------------------------------------------------
(* m_utf8::to_string.                                                      *)

\* a slip in the second mask: (b & 0x1f) for (b & 0x3f)
TwoByteUnitWrongMask(a, b) == BitOr(Shl16(BitAnd(a, 31), 6), BitAnd(b, 31))

\* out[s] = (((a & 0x1f) << 6) | (b & 0x3f)) as u16
TwoByteUnit(a, b) == BitOr(Shl16(BitAnd(a, 31), 6), BitAnd(b, 63))

\* out[s] = (((a & 0x0f) << 12) | ((b & 0x3f) << 6) | (c & 0x3f)) as u16
ThreeByteUnit(a, b, c) ==
    BitOr(BitOr(Shl16(BitAnd(a, 15), 12), Shl16(BitAnd(b, 63), 6)), BitAnd(c, 63))

\* (b & 0xc0) != 0x80
NotContinuation(b) == BitAnd(b, 192) # 128

IsHighSurrogate(u) == 55296 <= u /\ u <= 56319
IsLowSurrogate(u) == 56320 <= u /\ u <= 57343

\* String::from_utf16 accepts v iff every surrogate is half of a pair
RECURSIVE Utf16Valid(_)
Utf16Valid(v) ==
    IF v = <<>> THEN TRUE
    ELSE IF IsHighSurrogate(v[1])
         THEN Len(v) >= 2 /\ IsLowSurrogate(v[2]) /\ Utf16Valid(SubSeq(v, 3, Len(v)))
         ELSE ~IsLowSurrogate(v[1]) /\ Utf16Valid(Tail(v))

\* the chars of String::from_utf16(v), for a valid v
RECURSIVE Utf16Chars(_)
Utf16Chars(v) ==
    IF v = <<>> THEN <<>>
    ELSE IF IsHighSurrogate(v[1]) /\ Len(v) >= 2
         THEN <<65536 + (v[1] - 55296) * 1024 + (v[2] - 56320)>>
              \o Utf16Chars(SubSeq(v, 3, Len(v)))
         ELSE <<v[1]>> \o Utf16Chars(Tail(v))

\* the first s code units of the buffer: &out.as_slice()[..s]
OutPrefix(o, n) == SubSeq(o, 1, n)

\* m_utf8::to_string as one function, as the string readers call it.
\* the loop of to_string from position p on, n code units (out[..n] = o)
\* decoded so far
RECURSIVE to_string_loop(_, _, _, _, _, _)
to_string_loop(img, p, sz, dbg, n, o) ==
    IF ~read_u8_ok(img, p)
      THEN Done("Err", <<>>, IF p = Wide THEN Wide ELSE Max(p, Len(img)), "ReadError")
    ELSE
    LET a == read_u8(img, p)
        b == read_u8(img, p + 1)
        c == read_u8(img, p + 2)
    IN  IF a = 0
          THEN IF ~Utf16Valid(o) THEN Done("Err", <<>>, p + 1, "Utf16ToStringError")
               ELSE IF dbg /\ n # sz
                 THEN Done("panic", <<>>, p + 1,
                           "Declared Length does not match decoded length")
               ELSE Done("Ok", Utf16Chars(o), p + 1, "")
        ELSE IF n >= sz THEN Done("panic", <<>>, p + 1, "index out of bounds")
        ELSE IF a < 128 THEN to_string_loop(img, p + 1, sz, dbg, n + 1, Append(o, a))
        ELSE IF BitAnd(a, 224) = 192
          THEN IF ~read_u8_ok(img, p + 1) THEN Done("Err", <<>>, p + 1, "ReadError")
               ELSE IF NotContinuation(b) THEN Done("Err", <<>>, p + 2, "BadSecondByte")
               ELSE to_string_loop(img, p + 2, sz, dbg, n + 1,
                                   Append(o, TwoByteUnit(a, b)))
        ELSE IF BitAnd(a, 240) = 224
          THEN IF ~read_u8_ok(img, p + 1) \/ ~read_u8_ok(img, p + 2)
                 THEN Done("Err", <<>>, Len(img), "ReadError")
               ELSE IF NotContinuation(b) \/ NotContinuation(c)
                 THEN Done("Err", <<>>, p + 3, "BadSecondThirdByte")
               ELSE to_string_loop(img, p + 3, sz, dbg, n + 1,
                                   Append(o, ThreeByteUnit(a, b, c)))
        ELSE Done("Err", <<>>, p + 1, "BadByte")

\* m_utf8::to_string(reader, size)
to_string(img, p, sz, dbg) ==
    IF sz = Wide THEN AllocPanic(p) ELSE to_string_loop(img, p, sz, dbg, 0, <<>>)

\* for off in string_data_offs { seek; size = ..unwrap(); strings.push(to_string(..)?) }
RECURSIVE string_data(_, _, _, _, _)
string_data(img, p, dbg, offs, strings) ==
    IF offs = <<>> THEN Done("Ok", strings, p, "")
    ELSE Unwrapped(img, WordVal(Head(offs)), LAMBDA sz, q :
         Then(to_string(img, q, sz, dbg), LAMBDA string, q2 :
         string_data(img, q2, dbg, Tail(offs), Append(strings, string))))

\* parse_string_data(string_data_offs, reader); p is where the reader stands
parse_string_data(offs, img, p, dbg) == string_data(img, p, dbg, offs, <<>>)

\* the bytes a MUTF-8 stream of the model is made of
Mutf8Bytes == {0, 74, 169, 193, 194, 226, 237}

InitMutf8 ==
    /\ image \in SeqUpTo(Mutf8Bytes, MaxStream)
    /\ pos = 0
    /\ start = 0
    /\ size \in 0..MaxDeclared
    /\ s = 0
    /\ out = [i \in 1..size |-> 0]
    /\ debug_assertions \in BOOLEAN
    /\ pc = "loop"
    /\ ret = NoRet
    /\ NoTables

\* let a = read_u8(reader, &mut buf).map_err(ReadError)? fails at the end of the file
Mutf8ReadError ==
    /\ pc = "loop"
    /\ ~read_u8_ok(image, pos)
    /\ ret' = Err(<<>>, "ReadError")
    /\ pc' = "done"
    /\ UNCHANGED <<given, parsed, pos, start, mutf8_locals>>

\* if a == 0 { from_utf16(&out[..s])?; debug_assert!(s == size); return Ok(string) }
Mutf8Terminator ==
    /\ pc = "loop"
    /\ read_u8_ok(image, pos)
    /\ read_u8(image, pos) = 0
    /\ pos' = pos + 1
    /\ ret' = IF ~Utf16Valid(OutPrefix(out, s))
                THEN Err(<<>>, "Utf16ToStringError")
              ELSE IF debug_assertions /\ s # size
                THEN Panic(<<>>, "Declared Length does not match decoded length")
              ELSE Ok(Utf16Chars(OutPrefix(out, s)))
    /\ pc' = "done"
    /\ UNCHANGED <<given, parsed, start, mutf8_locals>>

\* out[s] = a as u16 with s == out.len(): index out of bounds
Mutf8IndexPanic ==
    /\ pc = "loop"
    /\ read_u8_ok(image, pos)
    /\ read_u8(image, pos) # 0
    /\ s >= Len(out)
    /\ pos' = pos + 1
    /\ ret' = Panic(<<>>, "index out of bounds")
    /\ pc' = "done"
    /\ UNCHANGED <<given, parsed, start, mutf8_locals>>

\* if a < 0x80 { s += 1 }
Mutf8OneByte ==
    /\ pc = "loop"
    /\ read_u8_ok(image, pos)
    /\ LET a == read_u8(image, pos) IN
        /\ a # 0
        /\ s < Len(out)
        /\ a < 128
        /\ out' = [out EXCEPT ![s + 1] = a]
        /\ s' = s + 1
        /\ pos' = pos + 1
    /\ UNCHANGED <<given, parsed, start, size, pc, ret>>

\* else if (a & 0xe0) == 0xc0 { b = read_u8?; check; out[s] = ..; s += 1 }
Mutf8TwoByte ==
    /\ pc = "loop"
    /\ read_u8_ok(image, pos)
    /\ LET a == read_u8(image, pos) IN
        /\ a # 0
        /\ s < Len(out)
        /\ ~(a < 128)
        /\ BitAnd(a, 224) = 192
        /\ IF ~read_u8_ok(image, pos + 1)
             THEN /\ ret' = Err(<<>>, "ReadError")
                  /\ pc' = "done"
                  /\ pos' = pos + 1
                  /\ out' = [out EXCEPT ![s + 1] = a]
                  /\ s' = s
           ELSE IF NotContinuation(read_u8(image, pos + 1))
             THEN /\ ret' = Err(<<>>, "BadSecondByte")
                  /\ pc' = "done"
                  /\ pos' = pos + 2
                  /\ out' = [out EXCEPT ![s + 1] = a]
                  /\ s' = s
           ELSE /\ out' = [out EXCEPT ![s + 1] = TwoByteUnit(a, read_u8(image, pos + 1))]
                /\ s' = s + 1
                /\ pos' = pos + 2
                /\ UNCHANGED <<pc, ret>>
    /\ UNCHANGED <<given, parsed, start, size>>

\* else if (a & 0xf0) == 0xe0 { b = read_u8?; c = read_u8?; check; out[s] = ..; s += 1 }
Mutf8ThreeByte ==
    /\ pc = "loop"
    /\ read_u8_ok(image, pos)
    /\ LET a == read_u8(image, pos) IN
        /\ a # 0
        /\ s < Len(out)
        /\ ~(a < 128)
        /\ BitAnd(a, 224) # 192
        /\ BitAnd(a, 240) = 224
        /\ IF ~read_u8_ok(image, pos + 1) \/ ~read_u8_ok(image, pos + 2)
             THEN /\ ret' = Err(<<>>, "ReadError")
                  /\ pc' = "done"
                  /\ pos' = Len(image)
                  /\ out' = [out EXCEPT ![s + 1] = a]
                  /\ s' = s
           ELSE IF \/ NotContinuation(read_u8(image, pos + 1))
                   \/ NotContinuation(read_u8(image, pos + 2))
             THEN /\ ret' = Err(<<>>, "BadSecondThirdByte")
                  /\ pc' = "done"
                  /\ pos' = pos + 3
                  /\ out' = [out EXCEPT ![s + 1] = a]
                  /\ s' = s
           ELSE /\ out' = [out EXCEPT ![s + 1] =
                              ThreeByteUnit(a, read_u8(image, pos + 1),
                                            read_u8(image, pos + 2))]
                /\ s' = s + 1
                /\ pos' = pos + 3
                /\ UNCHANGED <<pc, ret>>
    /\ UNCHANGED <<given, parsed, start, size>>

\* else { return Err(DecodeError(BadByte)) }
Mutf8BadByte ==
    /\ pc = "loop"
    /\ read_u8_ok(image, pos)
    /\ LET a == read_u8(image, pos) IN
        /\ a # 0
        /\ s < Len(out)
        /\ ~(a < 128)
        /\ BitAnd(a, 224) # 192
        /\ BitAnd(a, 240) # 224
        /\ out' = [out EXCEPT ![s + 1] = a]
    /\ pos' = pos + 1
    /\ ret' = Err(<<>>, "BadByte")
    /\ pc' = "done"
    /\ UNCHANGED <<given, parsed, start, size, s>>

NextMutf8 ==
    \/ Mutf8ReadError
    \/ Mutf8Terminator
    \/ Mutf8IndexPanic
    \/ Mutf8OneByte
    \/ Mutf8TwoByte
    \/ Mutf8ThreeByte
    \/ Mutf8BadByte

SpecMutf8 == InitMutf8 /\ [][NextMutf8]_vars

---------------------------------------------------------------------------
(* The fixed-width reads, called at any position of any file.              *)

\* the bytes of the files the reads are tried on
FileBytes == {0, 57, 255}

InitReads ==
    /\ image \in SeqUpTo(FileBytes, MaxFile)
    /\ pos \in 0..Len(image)
    /\ start = pos
    /\ pc = "idle"
    /\ ret = NoRet
    /\ NoMutf8
    /\ NoTables

\* the caller takes the value and the reader keeps its new position
Returned(r) ==
    /\ start' = pos
    /\ pos' = r.pos
    /\ ret' = [kind |-> r.kind, val |-> r.val, why |-> ""]
    /\ UNCHANGED <<given, parsed, mutf8_locals>>

ReadU8 ==
    /\ pc' = "read_u8"
    /\ IF read_u8_ok(image, pos)
         THEN Returned([kind |-> "Ok", val |-> read_u8(image, pos), pos |-> pos + 1])
         ELSE Returned([kind |-> "Err", val |-> 0, pos |-> Len(image)])

ReadU16 ==
    /\ pc' = "read_u16"
    /\ Returned(read_u16(image, pos))

ReadU32 ==
    /\ pc' = "read_u32"
    /\ Returned(read_u32(image, pos))

MainReadU32 ==
    /\ pc' = "main_read_u32"
    /\ Returned(main_read_u32(image, pos))

NextReads ==
    \/ ReadU8
    \/ ReadU16
    \/ ReadU32
    \/ MainReadU32

SpecReads == InitReads /\ [][NextReads]_vars

---------------------------------------------------------------------------
(* One encoded_value at the start of a file.                               *)

\* the largest value_arg the format allows for each value_type
ValueArgMax(t) ==
    CASE t \in {2, 3, 31} -> 1
      [] t \in {4, 16} \cup 21..27 -> 3
      [] t \in {6, 17} -> 7
      [] OTHER -> 0

\* the 18 value types of the format, and two the format does not know
ValueTypes == {0, 2, 3, 4, 6, 16, 17} \cup 21..31
UnknownTypes == {1, 5}

\* header bytes (value_arg << 5 | value_type) of scalar values
ScalarHeaders ==
    {t + 32 * k : t \in (ValueTypes \ {28, 29}) \cup UnknownTypes, k \in 0..7}
      \cap {h \in 0..255 : (h \div 32) <= ValueArgMax(h % 32)}

PayloadBytes == {64, 128}
NestedBytes == {0, 1, 2, 28, 30, 63, 128}

InitValue ==
    /\ \/ \E h \in ScalarHeaders : \E pl \in SeqUpTo(PayloadBytes, MaxPayload) :
            image = <<h>> \o pl
       \/ \E h \in {28, 29} : \E pl \in SeqUpTo(NestedBytes, MaxNested) :
            image = <<h>> \o pl
    /\ pos = 0
    /\ start = 0
    /\ pc = "call"
    /\ ret = NoRet
    /\ NoMutf8
    /\ NoTables

FromReader ==
    /\ pc = "call"
    /\ \E r \in {value_from_reader(image, pos)} :
        /\ ret' = [kind |-> r.kind, val |-> r.val, why |-> r.why]
        /\ pos' = r.pos
    /\ pc' = "done"
    /\ UNCHANGED <<given, parsed, start, mutf8_locals>>

NextValue == FromReader

SpecValue == InitValue /\ [][NextValue]_vars

---------------------------------------------------------------------------
(* parse_class_data on a file of class_data_items.                         *)

MaxClassBytes == 8

MaxClasses == 2

\* ULEB128 bytes: two one-byte numbers and a byte with the continuation bit
ClassBytes == {0, 2, 129}

\* a map without a class data entry, and maps whose second entry is one
ClassMaps ==
    {<<MapItem(0, U32(1), U32(0))>>}
      \cup {<<MapItem(0, U32(1), U32(0)), MapItem(8192, U32(n), U32(o))>> :
               n \in 1..MaxClasses, o \in 0..1}

InitClassData ==
    /\ image \in SeqUpTo(ClassBytes, MaxClassBytes)
    /\ map_list \in ClassMaps
    /\ dex_header = <<>>
    /\ tables = <<>>
    /\ pos = 0
    /\ start = 0
    /\ pc = "call"
    /\ ret = NoRet
    /\ NoMutf8

ParseClassData ==
    /\ pc = "call"
    /\ \E r \in {parse_class_data(map_list, image, pos)} :
        /\ ret' = [kind |-> r.kind, val |-> r.val, why |-> r.why]
        /\ pos' = r.pos
    /\ pc' = "parsed"
    /\ UNCHANGED <<given, parsed, start, mutf8_locals>>

NextClassData == ParseClassData

SpecClassData == InitClassData /\ [][NextClassData]_vars

---------------------------------------------------------------------------
(* parse_call_side_ids and parse_call_side_item on maps with and without a *)
(* call_site_id_item entry (type 0x07).                                    *)

\* parse_call_side_ids(map_list, reader): no entry is an empty table
parse_call_side_ids(ml, img, p) ==
    Bind(find_type_in_map(ml, 7), LAMBDA item :
         IF item = <<>> THEN Done("Ok", <<>>, p, "")
         ELSE IF WordVal(item[1].size) = Wide THEN AllocPanic(WordVal(item[1].offset))
         ELSE read_u32s(img, WordVal(item[1].offset), WordVal(item[1].size), <<>>))

\* parse_call_side_item(map_list, reader): returns () and reads nothing, or
\* panics when the map has the entry
parse_call_side_item(ml, img, p) ==
    IF find_type_in_map(ml, 7) # <<>>
      THEN Done("panic", <<>>, p, "Call Site Id Item was not null!")
    ELSE Done("Ok", <<>>, p, "")

MaxCallBytes == 4

\* the bytes of the files: a call_site_id (an offset) is four of them
CallBytes == {0, 1, 4}

\* a map without a call_site_id_item entry, and maps with one
CallMaps ==
    {<<MapItem(0, U32(1), U32(0))>>}
      \cup {<<MapItem(0, U32(1), U32(0)), MapItem(7, U32(n), U32(0))>> : n \in 0..1}

InitCallSite ==
    /\ image \in SeqUpTo(CallBytes, MaxCallBytes)
    /\ map_list \in CallMaps
    /\ dex_header = <<>>
    /\ tables = <<>>
    /\ pos = 0
    /\ start = 0
    /\ pc = "call"
    /\ ret = NoRet
    /\ NoMutf8

ParseCallSideIds ==
    /\ pc = "call"
    /\ \E r \in {parse_call_side_ids(map_list, image, pos)} :
        /\ ret' = [kind |-> r.kind, val |-> r.val, why |-> r.why]
        /\ pos' = r.pos
    /\ pc' = "call_side_ids"
    /\ UNCHANGED <<given, parsed, start, mutf8_locals>>

ParseCallSideItem ==
    /\ pc \in {"call", "call_side_ids"}
    /\ \E r \in {parse_call_side_item(map_list, image, pos)} :
        /\ ret' = [kind |-> r.kind, val |-> r.val, why |-> r.why]
        /\ pos' = r.pos
    /\ pc' = "call_side_item"
    /\ UNCHANGED <<given, parsed, start, mutf8_locals>>

NextCallSite ==
    \/ ParseCallSideIds
    \/ ParseCallSideItem

SpecCallSite == InitCallSite /\ [][NextCallSite]_vars

---------------------------------------------------------------------------
(* parse_debug_info on files of debug_info_items.                          *)

\* i64::try_from(n).unwrap() - 1; try_from fails from 2^63 on, a number of
\* ten LEB128 bytes, more than a file of the model holds
Uleb128p1(n) == IF n = Wide THEN Wide ELSE n - 1

\* for _ in 0..size { v.push(i64::try_from(unsigned(reader).unwrap()).unwrap() - 1) }
RECURSIVE parameter_names(_, _, _, _)
parameter_names(img, p, n, v) ==
    IF n = 0 THEN Done("Ok", v, p, "")
    ELSE Unwrapped(img, p, LAMBDA name, q :
         parameter_names(img, q, n - 1, Append(v, Uleb128p1(name))))

\* loop { reader.read_exact(&mut buf)?; if buf[0] == 0x00 { break } v.push(buf[0]) }
RECURSIVE state_machine_bytes(_, _, _)
state_machine_bytes(img, p, v) ==
    IF ~read_u8_ok(img, p) THEN Done("Err", <<>>, Len(img), "UnexpectedEof")
    ELSE IF read_u8(img, p) = 0 THEN Done("Ok", v, p + 1, "")
    ELSE state_machine_bytes(img, p + 1, Append(v, read_u8(img, p)))

\* DebugInfoItem { line_start, parameter_names, state_machine_bytes }
debug_info_item(img, p) ==
    Unwrapped(img, p, LAMBDA line_start, p1 :
    Unwrapped(img, p1, LAMBDA sz, p2 :
    IF sz = Wide THEN AllocPanic(p2)
    ELSE Then(parameter_names(img, p2, sz, <<>>), LAMBDA names, p3 :
         Then(state_machine_bytes(img, p3, <<>>), LAMBDA bytes, p4 :
         Done("Ok", [line_start |-> line_start, parameter_names |-> names,
                     state_machine_bytes |-> bytes], p4, "")))))

\* for _ in 0..item.size { v.push(DebugInfoItem { .. }) }
RECURSIVE debug_info_items(_, _, _, _)
debug_info_items(img, p, n, v) ==
    IF n = 0 THEN Done("Ok", v, p, "")
    ELSE Then(debug_info_item(img, p),
              LAMBDA it, q : debug_info_items(img, q, n - 1, Append(v, it)))

\* parse_debug_info(map_list, reader); p is where the reader stands before
parse_debug_info(ml, img, p) ==
    Bind(find_type_in_map(ml, 8195), LAMBDA item :
         IF item = <<>> THEN Done("panic", <<>>, p, "No Debug Info Found")
         ELSE IF WordVal(item[1].size) = Wide THEN AllocPanic(WordVal(item[1].offset))
         ELSE debug_info_items(img, WordVal(item[1].offset), WordVal(item[1].size), <<>>))

MaxDebugBytes == 6

MaxDebugItems == 2

\* 0x00 (DBG_END_SEQUENCE and the number 0), 0x01 (DBG_ADVANCE_PC and the
\* number 1), 0x03 (DBG_START_LOCAL), 0x0a (a special opcode)
DebugBytes == {0, 1, 3, 10}

\* a map without a debug_info_item entry (0x2003), and maps with one
DebugMaps ==
    {<<MapItem(0, U32(1), U32(0))>>}
      \cup {<<MapItem(0, U32(1), U32(0)), MapItem(8195, U32(n), U32(0))>> :
               n \in 1..MaxDebugItems}

InitDebugInfo ==
    /\ image \in SeqUpTo(DebugBytes, MaxDebugBytes)
    /\ map_list \in DebugMaps
    /\ dex_header = <<>>
    /\ tables = <<>>
    /\ pos = 0
    /\ start = 0
    /\ pc = "call"
    /\ ret = NoRet
    /\ NoMutf8

ParseDebugInfo ==
    /\ pc = "call"
    /\ \E r \in {parse_debug_info(map_list, image, pos)} :
        /\ ret' = [kind |-> r.kind, val |-> r.val, why |-> r.why]
        /\ pos' = r.pos
    /\ pc' = "debug_info"
    /\ UNCHANGED <<given, parsed, start, mutf8_locals>>

NextDebugInfo == ParseDebugInfo

SpecDebugInfo == InitDebugInfo /\ [][NextDebugInfo]_vars

---------------------------------------------------------------------------
(* parse_code_items, one code_item per step.                               *)

\* acc + 1 for a magnitude
Succ(acc) == IF acc = Wide \/ acc = 2147483647 THEN Wide ELSE acc + 1

\* an i64 as its sign and its magnitude
Signed(neg, abs) == [neg |-> neg, abs |-> abs]

\* the loop of leb128::read::signed: as the unsigned one, but the tenth byte
\* may be 0x00 or 0x7f, and the sign bit (0x40) of the last byte extends the
\* result.  cacc accumulates the complement of the 7-bit groups: a negative
\* result has the magnitude cacc + 1
RECURSIVE SlebLoop(_, _, _, _, _)
SlebLoop(img, p, shift, acc, cacc) ==
    IF ~read_u8_ok(img, p)
      THEN [kind |-> "Err", val |-> 0, pos |-> IF p = Wide THEN Wide ELSE Max(p, Len(img)),
            why |-> "IoError"]
    ELSE LET byte == img[p + 1] IN
      IF shift = 63 /\ byte # 0 /\ byte # 127
        THEN [kind |-> "Err", val |-> 0, pos |-> p + 1, why |-> "Overflow"]
      ELSE IF BitAnd(byte, 128) = 0
        THEN [kind |-> "Ok",
              val |-> IF BitAnd(byte, 64) = 64
                        THEN Signed(TRUE, Succ(UlebAccumulate(cacc,
                                                  127 - BitAnd(byte, 127), shift)))
                        ELSE Signed(FALSE, UlebAccumulate(acc, BitAnd(byte, 127), shift)),
              pos |-> p + 1, why |-> ""]
      ELSE SlebLoop(img, p + 1, shift + 7,
                    UlebAccumulate(acc, BitAnd(byte, 127), shift),
                    UlebAccumulate(cacc, 127 - BitAnd(byte, 127), shift))

read_signed(img, p) == SlebLoop(img, p, 0, 0, 0)

\* insns: for _ in 0..insns_size { v.push(read_u16(reader)?) }
RECURSIVE read_u16s(_, _, _, _)
read_u16s(img, p, n, v) ==
    IF n = 0 THEN Done("Ok", v, p, "")
    ELSE Bind(read_u16(img, p), LAMBDA r :
         read_u16s(img, r.pos, n - 1, Append(v, r.val)))

\* reader.read_exact(&mut buf)? on a buffer of n bytes
SkipExact(img, p, n) ==
    IF CanReadExact(img, p, n) THEN Done("Ok", <<>>, p + n, "")
    ELSE Done("Err", <<>>, Len(img), "UnexpectedEof")

\* insns: { the code units; if tries_size != 0 && insns_size % 2 == 1 { padding } }
insns(img, p, tries_size, insns_size) ==
    IF insns_size = Wide THEN AllocPanic(p)
    ELSE Then(read_u16s(img, p, insns_size, <<>>), LAMBDA v, q :
         IF tries_size # 0 /\ insns_size % 2 = 1
           THEN Then(SkipExact(img, q, 2), LAMBDA none, q2 : Done("Ok", v, q2, ""))
           ELSE Done("Ok", v, q, ""))

\* tries: TryItem { start_addr, insn_count, handler_off }, tries_size times
tries(img, p, tries_size) ==
    read_structs(img, p, tries_size, <<"start_addr", "insn_count", "handler_off">>,
                 <<4, 2, 2>>, <<>>)

\* handlers: EncodedTypeAddrPair { type_idx, addr }, abs_size times
RECURSIVE type_addr_pairs(_, _, _, _)
type_addr_pairs(img, p, n, v) ==
    IF n = 0 THEN Done("Ok", v, p, "")
    ELSE Unwrapped(img, p, LAMBDA type_idx, p1 :
         Unwrapped(img, p1, LAMBDA addr, p2 :
         type_addr_pairs(img, p2, n - 1,
                         Append(v, [type_idx |-> type_idx, addr |-> addr]))))

\* a slip in the test: size != 0 for size > 0, no catch-all after a negative size
catch_all_addr_nonzero(img, p, sz) ==
    IF sz.abs # 0 THEN Done("Ok", <<>>, p, "")
    ELSE Unwrapped(img, p, LAMBDA addr, q : Done("Ok", <<addr>>, q, ""))

\* catch_all_addr: if size > 0 { None } else { Some(unsigned(reader).unwrap()) }
catch_all_addr(img, p, sz) ==
    IF ~sz.neg /\ sz.abs # 0 THEN Done("Ok", <<>>, p, "")
    ELSE Unwrapped(img, p, LAMBDA addr, q : Done("Ok", <<addr>>, q, ""))

\* EncodedCatchHandler { handlers, catch_all_addr }
encoded_catch_handler(img, p) ==
    Bind(read_signed(img, p), LAMBDA r :
         IF r.kind # "Ok" THEN UnwrapPanic(r)
         ELSE IF r.val.abs = Wide THEN AllocPanic(r.pos)
         ELSE Then(type_addr_pairs(img, r.pos, r.val.abs, <<>>), LAMBDA pairs, q :
              Then(catch_all_addr(img, q, r.val), LAMBDA addr, q2 :
              Done("Ok", [handlers |-> pairs, catch_all_addr |-> addr], q2, ""))))

RECURSIVE encoded_catch_handlers(_, _, _, _)
encoded_catch_handlers(img, p, n, v) ==
    IF n = 0 THEN Done("Ok", v, p, "")
    ELSE Then(encoded_catch_handler(img, p), LAMBDA h, q :
         encoded_catch_handlers(img, q, n - 1, Append(v, h)))

\* handlers: if tries_size == 0 { Vec::new() } else { size = unsigned().unwrap(); .. }
handlers(img, p, tries_size) ==
    IF tries_size = 0 THEN Done("Ok", <<>>, p, "")
    ELSE Unwrapped(img, p, LAMBDA sz, q :
         IF sz = Wide THEN AllocPanic(q)
         ELSE encoded_catch_handlers(img, q, sz, <<>>))

\* the six header fields, then v.push(CodeItem { .. })
code_item_body(img, p) ==
    Then(read_values(img, p, <<2, 2, 2, 2, 4, 4>>, <<>>), LAMBDA h, p1 :
    Then(insns(img, p1, h[4], WordVal(h[6])), LAMBDA ins, p2 :
    Then(tries(img, p2, h[4]), LAMBDA trs, p3 :
    Then(handlers(img, p3, h[4]), LAMBDA hs, p4 :
    Done("Ok", [item |-> [registers_size |-> h[1], ins_size |-> h[2],
                          outs_size |-> h[3], debug_info_off |-> h[5],
                          insns |-> ins, tries |-> trs, handlers |-> hs],
                current_pos |-> p4 - p1], p4, "")))))

\* let mut v = vec![0u8; (4 - current_pos % 4) as usize]
PaddingBuffer(current_pos) ==
    IF current_pos % 4 # 0 THEN [i \in 1..(4 - (current_pos % 4)) |-> 0] ELSE <<>>

\* one turn of the loop: the item, then if current_pos % 4 != 0 the padding
\* read with read_exact
code_item(img, p) ==
    Then(code_item_body(img, p), LAMBDA b, q :
    IF b.current_pos % 4 = 0 THEN Done("Ok", [item |-> b.item, v |-> <<>>], q, "")
    ELSE Then(SkipExact(img, q, Len(PaddingBuffer(b.current_pos))), LAMBDA none, q2 :
         Done("Ok", [item |-> b.item, v |-> PaddingBuffer(b.current_pos)], q2, "")))

MaxInsns == 3

MaxTries == 1

MaxCodeItems == 2

U16(n) == <<n % 256, n \div 256>>

\* n copies of the bytes b
RECURSIVE Repeat(_, _)
Repeat(b, n) == IF n = 0 THEN <<>> ELSE b \o Repeat(b, n - 1)

\* encoded_catch_handler_lists of one handler, of 3, 4, 5 and 6 bytes: a
\* catch-all alone (size 0), one pair (size 1), one pair and a catch-all
\* (size -1), one pair with an address of three LEB128 bytes
HandlerLists ==
    {<<1, 0, 5>>, <<1, 1, 2, 3>>, <<1, 127, 2, 3, 4>>, <<1, 1, 2, 131, 128, 0>>}

\* the shapes of a code_item: tries_size, insns_size, and the bytes of its
\* handlers (none without tries)
CodeShapes ==
    {<<0, n, <<>>>> : n \in 0..MaxInsns}
      \cup {<<t, n, h>> : t \in 1..MaxTries, n \in 0..MaxInsns, h \in HandlerLists}

\* a code_item of a shape, without the padding after it
CodeItemBytes(shape) ==
    U16(1) \o U16(0) \o U16(0) \o U16(shape[1]) \o U32(0) \o U32(shape[2])
      \o Repeat(<<14, 0>>, shape[2])
      \o (IF shape[1] # 0 /\ shape[2] % 2 = 1 THEN <<0, 0>> ELSE <<>>)
      \o Repeat(U32(0) \o U16(1) \o U16(1), shape[1])
      \o shape[3]

\* the bytes b, and zeros up to a multiple of 4
Aligned(b) == b \o [i \in 1..((4 - (Len(b) % 4)) % 4) |-> 0]

\* the code section of a file: the code_items of the shapes, each one aligned
RECURSIVE CodeSection(_)
CodeSection(shapes) ==
    IF shapes = <<>> THEN <<>>
    ELSE Aligned(CodeItemBytes(Head(shapes))) \o CodeSection(Tail(shapes))

\* where the map puts the code section: aligned or not
CodeOffsets == {0, 2, 4}

\* bytes missing at the end of the file: none, some of the last code_item,
\* and more than a code_item without code
Cuts == {0, 1, 2, 5, 17}

\* the map of a file with n code_items at offset o (0x2001), and one without
CodeMap(n, o) == <<MapItem(0, U32(1), U32(0)), MapItem(8193, U32(n), U32(o))>>

\* code_items without tries: one that ends on a multiple of 4 and one that
\* needs padding
PlainShapes == {<<0, 0, <<>>>>, <<0, 1, <<>>>>}

\* the code_items of a file: one of any shape, at any place among plain ones
CodeShapeLists ==
    UNION {{[plain EXCEPT ![k] = shape] :
               plain \in [1..n -> PlainShapes], k \in 1..n, shape \in CodeShapes} :
           n \in 1..MaxCodeItems}

InitCodeItems ==
    /\ \E shapes \in CodeShapeLists : \E n \in {Len(shapes)} :
         \E o \in CodeOffsets : \E c \in Cuts :
            /\ image = SubSeq([i \in 1..o |-> 255] \o CodeSection(shapes), 1,
                              Max(0, o + Len(CodeSection(shapes)) - c))
            /\ map_list \in {CodeMap(n, o), <<MapItem(0, U32(1), U32(0))>>}
    /\ dex_header = <<>>
    /\ tables = <<>>
    /\ pos = 0
    /\ start = 0
    /\ pc = "call"
    /\ ret = NoRet
    /\ NoMutf8

\* find_type_in_map(map_list, 0x2001).unwrap(); reader.seek(Start(item.offset))
SeekCodeItems ==
    /\ pc = "call"
    /\ \E item \in {find_type_in_map(map_list, 8193)} :
         IF item = <<>>
           THEN /\ ret' = Panic(<<>>, "unwrap on None")
                /\ pc' = "done"
                /\ UNCHANGED <<pos, start, mutf8_locals>>
         ELSE IF WordVal(item[1].size) = Wide
           THEN /\ ret' = Panic(<<>>, "memory allocation failed")
                /\ pc' = "done"
                /\ pos' = WordVal(item[1].offset)
                /\ UNCHANGED <<start, mutf8_locals>>
         ELSE /\ pos' = WordVal(item[1].offset)
              /\ start' = WordVal(item[1].offset)
              /\ size' = WordVal(item[1].size)
              /\ s' = 0
              /\ pc' = "item"
              /\ UNCHANGED <<ret, out>>
    /\ UNCHANGED <<given, parsed>>

\* one turn of for _ in 0..item.size: out is the padding buffer v of the turn
CodeItem ==
    /\ pc = "item"
    /\ s < size
    /\ \E r \in {code_item(image, pos)} :
         IF r.kind = "Ok"
           THEN /\ tables' = Append(tables, [name |-> "code_item", val |-> r.val.item])
                /\ out' = r.val.v
                /\ s' = s + 1
                /\ start' = pos
                /\ pos' = r.pos
                /\ UNCHANGED <<pc, ret, size>>
           ELSE /\ ret' = [kind |-> r.kind, val |-> r.val, why |-> r.why]
                /\ pc' = "done"
                /\ pos' = r.pos
                /\ UNCHANGED <<tables, start, mutf8_locals>>
    /\ UNCHANGED <<given, map_list, dex_header>>

\* Ok(v)
CodeItemsReturn ==
    /\ pc = "item"
    /\ s = size
    /\ ret' = Ok([i \in 1..Len(tables) |-> tables[i].val])
    /\ pc' = "done"
    /\ UNCHANGED <<given, parsed, pos, start, mutf8_locals>>

NextCodeItems ==
    \/ SeekCodeItems
    \/ CodeItem
    \/ CodeItemsReturn

SpecCodeItems == InitCodeItems /\ [][NextCodeItems]_vars

---------------------------------------------------------------------------
(* parse_type_lists, one type_list per step.                               *)

\* one turn of the loop: size, size type indices, and two bytes read with
\* read_exact when size is odd
type_list(img, p) ==
    Bind(read_u32(img, p), LAMBDA sz :
         IF WordVal(sz.val) = Wide THEN AllocPanic(sz.pos)
         ELSE Then(read_u16s(img, sz.pos, WordVal(sz.val), <<>>), LAMBDA list, q :
              IF WordVal(sz.val) % 2 = 1
                THEN Then(SkipExact(img, q, 2), LAMBDA none, q2 : Done("Ok", list, q2, ""))
                ELSE Done("Ok", list, q, "")))

MaxTypes == 3

MaxTypeLists == 2

\* a type_list of n type indices 1, 2, .. n, without padding
TypeListBytes(n) ==
    U32(n) \o [i \in 1..(2 * n) |-> IF i % 2 = 1 THEN (i + 1) \div 2 ELSE 0]

\* the type_list section of a file: each list aligned
RECURSIVE TypeListSection(_)
TypeListSection(sizes) ==
    IF sizes = <<>> THEN <<>>
    ELSE Aligned(TypeListBytes(Head(sizes))) \o TypeListSection(Tail(sizes))

\* bytes missing at the end of the file
TypeListCuts == {0, 1, 3, 5}

\* the map of a file with n type_lists at offset o (0x1001)
TypeListMap(n, o) == <<MapItem(0, U32(1), U32(0)), MapItem(4097, U32(n), U32(o))>>

InitTypeLists ==
    /\ \E n \in 1..MaxTypeLists : \E sizes \in [1..n -> 0..MaxTypes] :
         \E o \in CodeOffsets : \E c \in TypeListCuts :
            /\ image = SubSeq([i \in 1..o |-> 255] \o TypeListSection(sizes), 1,
                              Max(0, o + Len(TypeListSection(sizes)) - c))
            /\ map_list \in {TypeListMap(n, o), <<MapItem(0, U32(1), U32(0))>>}
    /\ dex_header = <<>>
    /\ tables = <<>>
    /\ pos = 0
    /\ start = 0
    /\ pc = "call"
    /\ ret = NoRet
    /\ NoMutf8

\* find_type_in_map(map_list, 0x1001).unwrap(); reader.seek(Start(item.offset))
SeekTypeLists ==
    /\ pc = "call"
    /\ \E item \in {find_type_in_map(map_list, 4097)} :
         IF item = <<>>
           THEN /\ ret' = Panic(<<>>, "unwrap on None")
                /\ pc' = "done"
                /\ UNCHANGED <<pos, start, mutf8_locals>>
         ELSE IF WordVal(item[1].size) = Wide
           THEN /\ ret' = Panic(<<>>, "memory allocation failed")
                /\ pc' = "done"
                /\ pos' = WordVal(item[1].offset)
                /\ UNCHANGED <<start, mutf8_locals>>
         ELSE /\ pos' = WordVal(item[1].offset)
              /\ start' = WordVal(item[1].offset)
              /\ size' = WordVal(item[1].size)
              /\ s' = 0
              /\ pc' = "type_list"
              /\ UNCHANGED <<ret, out>>
    /\ UNCHANGED <<given, parsed>>

\* one turn of for _ in 0..item.size: out is the type_list of the turn
TypeList ==
    /\ pc = "type_list"
    /\ s < size
    /\ \E r \in {type_list(image, pos)} :
         IF r.kind = "Ok"
           THEN /\ tables' = Append(tables, [name |-> "type_list", val |-> r.val])
                /\ out' = r.val
                /\ s' = s + 1
                /\ start' = pos
                /\ pos' = r.pos
                /\ UNCHANGED <<pc, ret, size>>
           ELSE /\ ret' = [kind |-> r.kind, val |-> r.val, why |-> r.why]
                /\ pc' = "done"
                /\ pos' = r.pos
                /\ UNCHANGED <<tables, start, mutf8_locals>>
    /\ UNCHANGED <<given, map_list, dex_header>>

\* Ok(v)
TypeListsReturn ==
    /\ pc = "type_list"
    /\ s = size
    /\ ret' = Ok([i \in 1..Len(tables) |-> tables[i].val])
    /\ pc' = "done"
    /\ UNCHANGED <<given, parsed, pos, start, mutf8_locals>>

NextTypeLists ==
    \/ SeekTypeLists
    \/ TypeList
    \/ TypeListsReturn

SpecTypeLists == InitTypeLists /\ [][NextTypeLists]_vars

---------------------------------------------------------------------------
(* The tables a file may leave out: parse_call_side_ids,                   *)
(* parse_method_handles and parse_hiddenapi_class_data.                    *)

\* MethodHandle { method_handle_type, field_or_method_id }: a u16, two unused
\* bytes read with read_exact, a u16, two unused bytes
method_handle(img, p) ==
    Bind(read_u16(img, p), LAMBDA t :
    Then(SkipExact(img, t.pos, 2), LAMBDA none, p1 :
    Bind(read_u16(img, p1), LAMBDA used :
    Then(SkipExact(img, used.pos, 2), LAMBDA none2, p2 :
    Done("Ok", [method_handle_type |-> t.val, field_or_method_id |-> used.val],
         p2, "")))))

RECURSIVE method_handles(_, _, _, _)
method_handles(img, p, n, v) ==
    IF n = 0 THEN Done("Ok", v, p, "")
    ELSE Then(method_handle(img, p), LAMBDA h, q :
         method_handles(img, q, n - 1, Append(v, h)))

\* a slip in the order: the reader is rewound before the entry is looked for
parse_method_handles_rewound(ml, img, p) ==
    Bind(find_type_in_map(ml, 8), LAMBDA item :
         IF item = <<>> THEN Done("Ok", <<>>, 0, "")
         ELSE IF WordVal(item[1].size) = Wide THEN AllocPanic(WordVal(item[1].offset))
         ELSE method_handles(img, WordVal(item[1].offset), WordVal(item[1].size), <<>>))

\* parse_method_handles(map_list, reader): no entry (0x08) is an empty table
parse_method_handles(ml, img, p) ==
    Bind(find_type_in_map(ml, 8), LAMBDA item :
         IF item = <<>> THEN Done("Ok", <<>>, p, "")
         ELSE IF WordVal(item[1].size) = Wide THEN AllocPanic(WordVal(item[1].offset))
         ELSE method_handles(img, WordVal(item[1].offset), WordVal(item[1].size), <<>>))

\* flags: for _ in 0..size { v.push(leb128::read::unsigned(reader).unwrap()) }
RECURSIVE read_unsigneds(_, _, _, _)
read_unsigneds(img, p, n, v) ==
    IF n = 0 THEN Done("Ok", v, p, "")
    ELSE Unwrapped(img, p, LAMBDA flag, q : read_unsigneds(img, q, n - 1, Append(v, flag)))

\* HiddenApiClassData { size, offsets, flags }: size, size offsets, size flags
hiddenapi_class_data_item(img, p) ==
    Bind(read_u32(img, p), LAMBDA sz :
         IF WordVal(sz.val) = Wide THEN AllocPanic(sz.pos)
         ELSE Then(read_u32s(img, sz.pos, WordVal(sz.val), <<>>), LAMBDA offsets, p1 :
              Then(read_unsigneds(img, p1, WordVal(sz.val), <<>>), LAMBDA flags, p2 :
              Done("Ok", [size |-> sz.val, offsets |-> offsets, flags |-> flags],
                   p2, ""))))

RECURSIVE hiddenapi_class_data_items(_, _, _, _)
hiddenapi_class_data_items(img, p, n, v) ==
    IF n = 0 THEN Done("Ok", v, p, "")
    ELSE Then(hiddenapi_class_data_item(img, p), LAMBDA h, q :
         hiddenapi_class_data_items(img, q, n - 1, Append(v, h)))

\* parse_hiddenapi_class_data(map_list, reader): no entry (0xF000) is an
\* empty table
parse_hiddenapi_class_data(ml, img, p) ==
    Bind(find_type_in_map(ml, 61440), LAMBDA item :
         IF item = <<>> THEN Done("Ok", <<>>, p, "")
         ELSE IF WordVal(item[1].size) = Wide THEN AllocPanic(WordVal(item[1].offset))
         ELSE hiddenapi_class_data_items(img, WordVal(item[1].offset),
                                         WordVal(item[1].size), <<>>))

MaxHidden == 2

MaxOptItems == 2

\* the numbers of v as u32 words
RECURSIVE Words(_)
Words(v) == IF v = <<>> THEN <<>> ELSE U32(Head(v)) \o Words(Tail(v))

\* a hiddenapi_class_data_item: the u32 size n, n offsets (0: the class has
\* no flags, or 8), and k flags of one byte
HiddenFiles ==
    UNION {{U32(n) \o Words(offs) \o Repeat(<<5>>, k) :
               offs \in [1..n -> {0, 8}], k \in 0..n} : n \in 0..MaxHidden}

\* the item types of the three tables: call_site_id_item, method_handle_item,
\* hiddenapi_class_data_item
OptionalTypes == {7, 8, 61440}

\* a map without any of them, and maps with one of them, of n items at o
OptionalMaps ==
    {<<MapItem(0, U32(1), U32(0))>>}
      \cup {<<MapItem(0, U32(1), U32(0)), MapItem(t, U32(n), U32(o))>> :
               t \in OptionalTypes, n \in 0..MaxOptItems, o \in {0, 4}}

\* the file is a hiddenapi_class_data_item, at 0 or after a word 0; the
\* entries of the map name the start of the file or the item (a table that
\* starts inside the item would take its flag bytes for a size in the
\* hundreds); the reader stands at the start of the file or further on
InitOptional ==
    /\ \E j \in {0, 4} : \E f \in HiddenFiles :
          /\ image = [i \in 1..j |-> 0] \o f
          /\ map_list \in {ml \in OptionalMaps :
                  \A i \in 1..Len(ml) : WordVal(ml[i].offset) \in {0, j}}
    /\ dex_header = <<>>
    /\ tables = <<>>
    /\ pos \in {0, 3}
    /\ start = pos
    /\ pc = "call"
    /\ ret = NoRet
    /\ NoMutf8

ParseMethodHandles ==
    /\ pc = "call"
    /\ \E r \in {parse_method_handles(map_list, image, pos)} :
        /\ ret' = [kind |-> r.kind, val |-> r.val, why |-> r.why]
        /\ pos' = r.pos
    /\ pc' = "method_handles"
    /\ UNCHANGED <<given, parsed, start, mutf8_locals>>

ParseHiddenapiClassData ==
    /\ pc = "call"
    /\ \E r \in {parse_hiddenapi_class_data(map_list, image, pos)} :
        /\ ret' = [kind |-> r.kind, val |-> r.val, why |-> r.why]
        /\ pos' = r.pos
    /\ pc' = "hiddenapi_class_data"
    /\ UNCHANGED <<given, parsed, start, mutf8_locals>>

NextOptional ==
    \/ ParseCallSideIds
    \/ ParseMethodHandles
    \/ ParseHiddenapiClassData

SpecOptional == InitOptional /\ [][NextOptional]_vars


---------------------------------------------------------------------------
(* The header readers, and the tables after them, on files that differ in  *)
(* their magic, their endian tag and their length.                         *)

\* magics: "dex\n" or not, then three bytes and a last one
Magics ==
    {<<100, 101, b3, 10, b4, b5, b6, b7>> :
        b3 \in {120, 121}, b4 \in {48, 49}, b5 \in {51, 52, 97},
        b6 \in {48, 53, 54, 57}, b7 \in {0, 1}}

\* the bytes at 0x28: the two constants and a word that is neither
EndianTags == {ENDIAN_CONSTANT, REVERSE_ENDIAN_CONSTANT, <<120, 86, 52, 19>>}

\* one map_item
MapItemBytes(item_type, sz, offset) ==
    <<item_type % 256, item_type \div 256, 0, 0>> \o U32(sz) \o U32(offset)

\* a file of 152 bytes: the header (0x70 bytes), string_ids at 112 (one
\* string, its data at 120), type_ids at 116, the string "hi" at 120, the map
\* at 124 (two items: n string_id_items at 112, and the map itself),
\* proto_ids read at 140; the other header fields hold numbers that tell them
\* apart; the data section starts at d
FileImage(magic, tag, n, d) ==
    magic \o <<1, 2, 3, 4>> \o [i \in 1..20 |-> 160 + i]
      \o U32(152) \o U32(112) \o tag
      \o U32(3) \o U32(148) \o U32(124)
      \o U32(1) \o U32(112) \o U32(1) \o U32(116) \o U32(1) \o U32(140)
      \o U32(5) \o U32(128) \o U32(6) \o U32(132) \o U32(7) \o U32(136)
      \o U32(33) \o U32(d)
      \o U32(120) \o U32(0) \o <<2, 104, 105, 0>>
      \o U32(2) \o MapItemBytes(1, n, 112) \o MapItemBytes(4096, 1, 124)

\* the size of the map's string_id_item entry: the header's count, and another
MapStringIds == {1, 2}

\* data_off: before the string's offset (120), at it, and after it
DataOffs == {119, 120, 121}

\* the whole file, and files cut inside the magic, inside the endian tag and
\* after string_ids_size
FileLengths == {6, 41, 60, 152}

InitHeader ==
    /\ \E magic \in Magics : \E tag \in EndianTags : \E n \in FileLengths :
          \E k \in MapStringIds : \E d \in DataOffs :
             image = SubSeq(FileImage(magic, tag, k, d), 1, n)
    /\ debug_assertions \in BOOLEAN
    /\ pos = 0
    /\ start = 0
    /\ pc = "start"
    /\ ret = NoRet
    /\ size = 0 /\ s = 0 /\ out = <<>>
    /\ NoTables

\* what every header action leaves alone
HeaderFrame == UNCHANGED <<given, start, mutf8_locals>>

\* DexHeader::verify_magic on the first 8 bytes of the file
VerifyMagic ==
    /\ pc = "start"
    /\ Len(image) >= 8
    /\ pc' = "verify_magic"
    /\ ret' = verify_magic(Slice(image, 0, 8))
    /\ UNCHANGED <<pos, parsed>>
    /\ HeaderFrame

\* DexHeader::get_endian on the file mapped to memory
GetEndian ==
    /\ pc = "start"
    /\ pc' = "get_endian"
    /\ ret' = get_endian(image)
    /\ UNCHANGED <<pos, parsed>>
    /\ HeaderFrame

\* try_from_ctx on the file mapped to memory, in the endianness the caller asks
TryFromCtx ==
    /\ pc = "start"
    /\ pc' = "try_from_ctx"
    /\ \E endian \in {"LE", "BE"} : \E r \in {try_from_ctx(image, endian)} :
          /\ ret' = [kind |-> r.kind, val |-> r.val, why |-> r.why]
          /\ dex_header' = IF r.kind = "Ok" THEN r.val[1] ELSE dex_header
    /\ UNCHANGED <<pos, map_list, tables>>
    /\ HeaderFrame

\* raw_dex.rs: DexHeader::from_reader(reader)
RawFromReader ==
    /\ pc = "start"
    /\ pc' = "raw_header"
    /\ \E r \in {from_reader(image, pos)} :
          /\ ret' = [kind |-> r.kind, val |-> r.val, why |-> r.why]
          /\ pos' = r.pos
          /\ dex_header' = IF r.kind = "Ok" THEN r.val ELSE dex_header
    /\ UNCHANGED <<map_list, tables>>
    /\ HeaderFrame

\* raw_dex.rs: MapItem::parse_map_list(&dex_header, reader), which needs the
\* header from_reader returned
RawParseMapList ==
    /\ pc = "raw_header"
    /\ ret.kind = "Ok"
    /\ pc' = "raw_map"
    /\ \E r \in {parse_map_list(dex_header, image)} :
          /\ ret' = [kind |-> r.kind, val |-> r.val, why |-> r.why]
          /\ pos' = r.pos
          /\ map_list' = IF r.kind = "Ok" THEN r.val ELSE map_list
          /\ tables' = IF r.kind = "Ok"
                         THEN Append(tables, [name |-> "map_list", val |-> r.val])
                         ELSE tables
    /\ UNCHANGED dex_header
    /\ HeaderFrame

\* a table parser of raw_dex.rs has returned r
RawStep(to, name, r) ==
    /\ pc' = to
    /\ ret' = [kind |-> r.kind, val |-> r.val, why |-> r.why]
    /\ pos' = r.pos
    /\ tables' = IF r.kind = "Ok"
                   THEN Append(tables, [name |-> name, val |-> r.val]) ELSE tables
    /\ UNCHANGED <<map_list, dex_header>>
    /\ HeaderFrame

\* the header and the map are read: any fixed table may be asked for
RawTablesReady == pc = "raw_map" /\ ret.kind = "Ok"

RawParseStringIds ==
    /\ RawTablesReady
    /\ \E r \in {parse_string_ids(dex_header, image)} :
          RawStep("raw_string_ids", "string_ids", r)

RawParseTypeIds ==
    /\ RawTablesReady
    /\ \E r \in {parse_type_ids(dex_header, image)} :
          RawStep("raw_type_ids", "type_ids", r)

RawParseProtoIds ==
    /\ RawTablesReady
    /\ \E r \in {parse_proto_ids(dex_header, image)} :
          RawStep("raw_proto_ids", "proto_ids", r)

RawParseFieldIds ==
    /\ RawTablesReady
    /\ \E r \in {parse_field_ids(dex_header, image)} :
          RawStep("raw_field_ids", "field_ids", r)

RawParseMethodIds ==
    /\ RawTablesReady
    /\ \E r \in {parse_method_ids(dex_header, image)} :
          RawStep("raw_method_ids", "method_ids", r)

RawParseClassDefs ==
    /\ RawTablesReady
    /\ \E r \in {parse_class_defs(dex_header, image)} :
          RawStep("raw_class_defs", "class_defs", r)

\* parse_string_data(string_data_offs, reader) on the offsets that
\* parse_string_ids returned
RawParseStringData ==
    /\ pc = "raw_string_ids"
    /\ ret.kind = "Ok"
    /\ \E r \in {parse_string_data(ret.val, image, pos, debug_assertions)} :
          RawStep("raw_string_data", "string_data", r)

\* main(): from_reader, the version and the endianness asserted
MainHeader ==
    /\ pc = "start"
    /\ pc' = "main_header"
    /\ \E r \in {main_header(image, pos)} :
          /\ ret' = [kind |-> r.kind, val |-> r.val, why |-> r.why]
          /\ pos' = r.pos
          /\ dex_header' = IF r.kind = "Ok" THEN r.val[1] ELSE dex_header
    /\ UNCHANGED <<map_list, tables>>
    /\ HeaderFrame

\* a table parser of main() has returned r: the table is kept under its name,
\* the reader stays where the parser left it
MainStep(to, name, r) ==
    /\ pc' = to
    /\ ret' = [kind |-> r.kind, val |-> r.val, why |-> r.why]
    /\ pos' = r.pos
    /\ tables' = IF r.kind = "Ok"
                   THEN Append(tables, [name |-> name, val |-> r.val]) ELSE tables
    /\ UNCHANGED <<map_list, dex_header>>
    /\ HeaderFrame

\* main(): let strings = parse_strings(&dex_header, &mut reader), reached
\* when nothing before it has panicked
MainParseStrings ==
    /\ pc = "main_header"
    /\ ret.kind = "Ok"
    /\ \E r \in {parse_strings(dex_header, image, debug_assertions)} :
          MainStep("main_strings", "strings", r)

\* main(): let type_ids = parse_types(&dex_header, &mut reader)
MainParseTypes ==
    /\ pc = "main_strings"
    /\ ret.kind = "Ok"
    /\ \E r \in {parse_types(dex_header, image)} :
          MainStep("main_types", "type_ids", r)

\* main(): let proto_ids = parse_protos(&dex_header, &mut reader)
MainParseProtos ==
    /\ pc = "main_types"
    /\ ret.kind = "Ok"
    /\ \E r \in {parse_protos(dex_header, image)} :
          MainStep("main_protos", "proto_ids", r)

NextHeader ==
    \/ VerifyMagic
    \/ GetEndian
    \/ TryFromCtx
    \/ RawFromReader
    \/ RawParseMapList
    \/ RawParseStringIds
    \/ RawParseStringData
    \/ RawParseTypeIds
    \/ RawParseProtoIds
    \/ RawParseFieldIds
    \/ RawParseMethodIds
    \/ RawParseClassDefs
    \/ MainHeader
    \/ MainParseStrings
    \/ MainParseTypes
    \/ MainParseProtos

SpecHeader == InitHeader /\ [][NextHeader]_vars

---------------------------------------------------------------------------
(* What the MUTF-8 format says of a stream, independently of the decoder:  *)
(* the bytes before the first 0x00, cut into 1-, 2- and 3-byte groups.     *)

HasTerminator(img) == \E i \in 1..Len(img) : img[i] = 0

FirstZero(img) == CHOOSE i \in 1..Len(img) : img[i] = 0 /\ \A j \in 1..(i - 1) : img[j] # 0

\* the bytes before the terminator
Body(img) == SubSeq(img, 1, FirstZero(img) - 1)

IsLead1(b) == 1 <= b /\ b <= 127
IsLead2(b) == 192 <= b /\ b <= 223
IsLead3(b) == 224 <= b /\ b <= 239
IsCont(b) == 128 <= b /\ b <= 191

RECURSIVE WellFormedGroups(_)
WellFormedGroups(b) ==
    IF b = <<>> THEN TRUE
    ELSE IF IsLead1(b[1]) THEN WellFormedGroups(Tail(b))
    ELSE IF IsLead2(b[1])
         THEN Len(b) >= 2 /\ IsCont(b[2]) /\ WellFormedGroups(SubSeq(b, 3, Len(b)))
    ELSE IF IsLead3(b[1])
         THEN Len(b) >= 3 /\ IsCont(b[2]) /\ IsCont(b[3])
              /\ WellFormedGroups(SubSeq(b, 4, Len(b)))
    ELSE FALSE

\* the code unit of each group of a well-formed body, in input order
RECURSIVE GroupUnits(_)
GroupUnits(b) ==
    IF b = <<>> THEN <<>>
    ELSE IF IsLead1(b[1]) THEN <<b[1]>> \o GroupUnits(Tail(b))
    ELSE IF IsLead2(b[1])
         THEN <<(b[1] % 32) * 64 + (b[2] % 64)>> \o GroupUnits(SubSeq(b, 3, Len(b)))
    ELSE <<(b[1] % 16) * 4096 + (b[2] % 64) * 64 + (b[3] % 64)>>
         \o GroupUnits(SubSeq(b, 4, Len(b)))

\* a zero-terminated stream of well-formed groups
WellFormedStream(img) == HasTerminator(img) /\ WellFormedGroups(Body(img))

\* C1: a well-formed zero-terminated stream of m code units with a declared
\* count n # m still decodes: to_string returns the string of all m code units
\* and neither fails nor aborts.  (Streams whose code units are valid UTF-16:
\* the final text conversion is a separate matter.)
C1_LengthMismatchNonFatal ==
    (/\ pc = "done"
     /\ WellFormedStream(image)
     /\ Len(GroupUnits(Body(image))) # size
     /\ Utf16Valid(GroupUnits(Body(image))))
    => ret = Ok(Utf16Chars(GroupUnits(Body(image))))

\* C2: for a stream of well-formed groups and a terminator, with the declared
\* count equal to the number of groups, the decoder ends at the terminator with
\* exactly one code unit per group in its buffer, in input order, each computed
\* by the group's formula; the terminator is consumed and not emitted, and a
\* returned string is the text of those code units.
C2_OneUnitPerGroup ==
    (/\ pc = "done"
     /\ WellFormedStream(image)
     /\ Len(GroupUnits(Body(image))) = size)
    => /\ s = size
       /\ OutPrefix(out, s) = GroupUnits(Body(image))
       /\ pos = FirstZero(image)
       /\ ret.kind # "panic"
       /\ ret.kind = "Err" => ret.why = "Utf16ToStringError"
       /\ ret.kind = "Ok" => ret.val = Utf16Chars(GroupUnits(Body(image)))

\* 'J' then the 2-byte group C2 A9, declared 2, decoded up to the terminator
C2_Witness ==
    /\ pc = "done"
    /\ WellFormedStream(image)
    /\ Len(GroupUnits(Body(image))) = size
    /\ Body(image) = <<74, 194, 169>>
    /\ ret = Ok(<<74, 169>>)

---------------------------------------------------------------------------
(* The fixed-width reads.                                                  *)

\* C6: a fixed-width read fails when fewer than N/8 bytes remain: read_u16
\* with fewer than 2 bytes left and read_u32 with fewer than 4 bytes left return
\* an error, never a value.
C6_TruncatedReadFails ==
    /\ (pc = "read_u16" /\ Len(image) - start < 2) => ret.kind # "Ok"
    /\ (pc \in {"read_u32", "main_read_u32"} /\ Len(image) - start < 4)
         => ret.kind # "Ok"

---------------------------------------------------------------------------
(* What the format says of a scalar encoded_value: value_arg + 1 payload   *)
(* bytes follow the header byte.                                           *)

HeaderType(img) == img[1] % 32
HeaderArg(img) == img[1] \div 32

\* the value_arg + 1 payload bytes
Payload(img) == SubSeq(img, 2, HeaderArg(img) + 2)

\* pl, least significant byte first, sign-extended to n bytes
SignExtended(pl, n) ==
    [i \in 1..n |-> IF i <= Len(pl) THEN pl[i]
                    ELSE IF pl[Len(pl)] >= 128 THEN 255 ELSE 0]

\* pl placed as the most significant bytes of an n-byte little-endian word
RightExtended(pl, n) ==
    [i \in 1..n |-> IF i <= n - Len(pl) THEN 0 ELSE pl[i - (n - Len(pl))]]

TypeName(t) ==
    CASE t = 2 -> "Short" [] t = 4 -> "Int" [] t = 6 -> "Long"
      [] t = 16 -> "Float" [] t = 17 -> "Double" [] OTHER -> "?"

TypeWidth(t) == CASE t = 2 -> 2 [] t \in {4, 16} -> 4 [] OTHER -> 8

\* a value of one of the types ts, with all its value_arg + 1 payload bytes in
\* the file, has been decoded
DecodedScalar(ts) ==
    /\ pc = "done"
    /\ HeaderType(image) \in ts
    /\ HeaderArg(image) <= ValueArgMax(HeaderType(image))
    /\ Len(image) >= HeaderArg(image) + 2

\* C3: a Short, Int or Long with value_arg = k is decoded from exactly k + 1
\* payload bytes, little-endian, sign-extended from the top bit of the last
\* byte read, and the reader ends k + 2 bytes past the start of the value.
C3_IntegerPayloadWidth ==
    DecodedScalar({2, 4, 6})
    => /\ ret = Ok(EV(TypeName(HeaderType(image)),
                      SignExtended(Payload(image), TypeWidth(HeaderType(image)))))
       /\ pos = start + HeaderArg(image) + 2

\* C4: a Float or Double with value_arg = k is decoded from exactly k + 1
\* payload bytes, placed as the most significant bytes of a 4- or 8-byte
\* little-endian word whose low bytes are zero.
C4_FloatRightExtension ==
    DecodedScalar({16, 17})
    => /\ ret = Ok(EV(TypeName(HeaderType(image)),
                      RightExtended(Payload(image), TypeWidth(HeaderType(image)))))
       /\ pos = start + HeaderArg(image) + 2

---------------------------------------------------------------------------
(* Members of a class_data_item.                                           *)

\* the sum of the first n numbers of a sequence
RECURSIVE PrefixSum(_, _)
PrefixSum(q, n) == IF n = 0 THEN 0 ELSE PrefixSum(q, n - 1) + q[n]

\* the *_idx_diff numbers of a parsed list, as read from the file
Diffs(list) ==
    [i \in 1..Len(list) |->
        IF "field_idx_diff" \in DOMAIN list[i]
          THEN list[i].field_idx_diff ELSE list[i].method_idx_diff]

\* the fields of a parsed entry that can hold an index
IndexFields(e) == DOMAIN e \ {"access_flags", "code_off"}

\* the lists of a parsed class
MemberLists(c) ==
    {c.static_fields, c.instance_fields, c.direct_methods, c.virtual_methods}

\* C5: the index a parsed member exposes is the running sum of the *_idx_diff
\* numbers of its list up to and including its own, the sum starting at 0 for
\* each of the four lists of each class, and some field of the parsed member
\* holds it.
C5_ResolvedMemberIndex ==
    (pc = "parsed" /\ ret.kind = "Ok")
    => \A k \in 1..Len(ret.val) : \A list \in MemberLists(ret.val[k]) :
          \A i \in 1..Len(list) :
              \E f \in IndexFields(list[i]) : list[i][f] = PrefixSum(Diffs(list), i)

---------------------------------------------------------------------------
(* What the format says of a header.                                       *)

\* the 8 magic bytes of a file that has them
MagicOf(img) == SubSeq(img, 1, 8)

\* "dex\n", three ASCII digits, "\0"
WellFormedMagic(m) ==
    /\ SubSeq(m, 1, 4) = <<100, 101, 120, 10>>
    /\ \A i \in 5..7 : 48 <= m[i] /\ m[i] <= 57
    /\ m[8] = 0

\* the number the three digits spell
VersionSpelled(m) == 100 * (m[5] - 48) + 10 * (m[6] - 48) + (m[7] - 48)

\* the versions the format names: 035, 037, 038, 039, 040
FormatVersions == {35, 37, 38, 39, 40}

\* the four bytes at 0x28 as a little-endian read takes them (a read at the
\* end of the file leaves zeros)
TagRead(img) == [i \in 1..4 |-> IF 40 + i <= Len(img) THEN img[40 + i] ELSE 0]

LittleTag == <<120, 86, 52, 18>>

BigTag == <<18, 52, 86, 120>>

\* the states in which a header reader has returned
HeaderReturned == pc \in {"raw_header", "main_header", "try_from_ctx"}

\* a whole file whose header is valid but for its version
WholeFile == Len(image) = 152 /\ TagRead(image) = LittleTag

\* C7: a header reader rejects every file whose three-digit version is not one
\* of 035, 037, 038, 039, 040, and accepts every file with an otherwise valid
\* header whose version is one of the five.
C7_VersionSet ==
    (HeaderReturned /\ WholeFile /\ WellFormedMagic(MagicOf(image)))
    => /\ VersionSpelled(MagicOf(image)) \notin FormatVersions => ret.kind # "Ok"
       /\ VersionSpelled(MagicOf(image)) \in FormatVersions => ret.kind = "Ok"

\* C8: verify_magic accepts a magic exactly when it is "dex\n", three ASCII
\* digits and "\0", and then returns the number the digits spell, whatever the
\* digits are; every other magic is rejected.
C8_VerifyMagicAnyDigits ==
    pc = "verify_magic"
    => IF WellFormedMagic(MagicOf(image))
         THEN ret = Ok(VersionSpelled(MagicOf(image)))
         ELSE ret.kind = "panic"

\* where the k-th u32 field after the signature lies in the file
FieldOffset(k) == 32 + 4 * (k - 1)

\* the bytes b read as a big-endian number, kept as a word
BigEndianWord(b) == <<b[4], b[3], b[2], b[1]>>

\* C9: in a file whose endian tag resolves to big-endian and which from_reader
\* does not reject, every header field read after the tag is decoded
\* big-endian.
C9_ReadsHonorEndianTag ==
    (pc = "raw_header" /\ ret.kind = "Ok" /\ Len(image) = 152
       /\ TagRead(image) = BigTag)
    => \A k \in 4..20 :
          dex_header[HeaderFields[k]]
            = BigEndianWord(SubSeq(image, FieldOffset(k) + 1, FieldOffset(k) + 4))

\* the magic lets the header readers go on to the endian tag
MagicPassed ==
    /\ Len(image) >= 40
    /\ WellFormedMagic(MagicOf(image))
    /\ MagicOf(image)[5] = 48

BadTagFault == [kind |-> "panic", val |-> <<>>, why |-> "Bytes do not match valid constants"]

\* C10: the tag 0x12345678 resolves to little-endian, 0x78563412 to big-endian
\* (or the file is rejected as unsupported), and with any other tag the header
\* parse fails with the bad-tag fault, a header reader returns no header, and
\* no table is ever read.
C10_EndianResolution ==
    /\ (pc = "get_endian" /\ Len(image) >= 44)
         => ret = CASE TagRead(image) = LittleTag -> Ok("LE")
                    [] TagRead(image) = BigTag -> Ok("BE")
                    [] OTHER -> BadTagFault
    /\ (pc \in {"raw_header", "main_header"} /\ MagicPassed
          /\ TagRead(image) \notin {LittleTag, BigTag})
         => ret = BadTagFault
    /\ (pc = "raw_header" /\ MagicPassed /\ Len(image) = 152
          /\ TagRead(image) \in {LittleTag, BigTag})
         => ret.kind = "Ok"
    /\ (pc = "main_header" /\ MagicPassed /\ Len(image) = 152
          /\ VersionSpelled(MagicOf(image)) \in {35, 39})
         => /\ TagRead(image) = LittleTag => ret.kind = "Ok"
            /\ TagRead(image) = BigTag
                 => (ret.kind = "panic"
                     /\ ret.why = "Dex Files with reverse endian tag are not supported")
    /\ (HeaderReturned /\ ret.kind = "Ok") => TagRead(image) \in {LittleTag, BigTag}
    /\ (tables # <<>> \/ map_list # <<>> \/ dex_header # <<>>)
         => TagRead(image) \in {LittleTag, BigTag}

\* from_reader has met a tag that is neither constant in a whole file with a
\* good magic, and has panicked; nothing was read after it
C10_Witness ==
    /\ pc = "raw_header"
    /\ Len(image) = 152
    /\ MagicPassed
    /\ TagRead(image) = <<120, 86, 52, 19>>
    /\ ret = BadTagFault
    /\ pos = 44
    /\ tables = <<>> /\ map_list = <<>> /\ dex_header = <<>>

---------------------------------------------------------------------------
(* The layout of the header.                                               *)

\* the header table of the format: each u32 field after the signature with
\* its byte offset
HeaderTable ==
    <<<<"file_size", 32>>, <<"header_size", 36>>, <<"endian_tag", 40>>,
      <<"link_size", 44>>, <<"link_off", 48>>, <<"map_off", 52>>,
      <<"string_ids_size", 56>>, <<"string_ids_off", 60>>,
      <<"type_ids_size", 64>>, <<"type_ids_off", 68>>,
      <<"proto_ids_size", 72>>, <<"proto_ids_off", 76>>,
      <<"field_ids_size", 80>>, <<"field_ids_off", 84>>,
      <<"method_ids_size", 88>>, <<"method_ids_off", 92>>,
      <<"class_defs_size", 96>>, <<"class_defs_off", 100>>,
      <<"data_size", 104>>, <<"data_off", 108>>>>

\* the n bytes of the file at offset o
BytesAt(img, o, n) == SubSeq(img, o + 1, o + n)

\* a reader of a BufReader<File> has returned a header of a file that holds
\* the 112 bytes of one
HeaderRead ==
    /\ pc \in {"raw_header", "main_header"}
    /\ ret.kind = "Ok"
    /\ Len(image) >= 112

---------------------------------------------------------------------------
(* Header counts and map entries.                                          *)

\* the fixed tables: the state their parser ends in, the header count they
\* are read with, the type code of their map entry
FixedTables ==
    {<<"raw_string_ids", "string_ids_size", 1>>,
     <<"raw_type_ids", "type_ids_size", 2>>,
     <<"raw_proto_ids", "proto_ids_size", 3>>,
     <<"raw_field_ids", "field_ids_size", 4>>,
     <<"raw_method_ids", "method_ids_size", 5>>,
     <<"raw_class_defs", "class_defs_size", 6>>}

\* the map entries of a type
EntriesOf(ml, item_type) == {i \in 1..Len(ml) : ml[i].item_type = item_type}

\* C12: when a header count differs from the size of the map entry of the
\* corresponding type, the parser of that table refuses the input: it returns
\* no table.
C12_MapHeaderMismatchRefused ==
    \A t \in FixedTables :
        (/\ pc = t[1]
         /\ \E i \in EntriesOf(map_list, t[3]) : map_list[i].size # dex_header[t[2]])
        => (ret.kind # "Ok" /\ tables = <<[name |-> "map_list", val |-> map_list]>>)


\* the string data readers: raw_dex.rs parse_string_data and main.rs
\* parse_strings
StringReaders == {"raw_string_data", "main_strings"}

\* the offsets of the string_ids table at which strings have been decoded
DecodedAt ==
    {BytesAt(image, WordVal(dex_header.string_ids_off) + 4 * (i - 1), 4) :
        i \in 1..Len(ret.val)}

\* data_off <= o < data_off + data_size
InDataSection(o) ==
    /\ WordVal(dex_header.data_off) <= WordVal(o)
    /\ WordVal(o) < WordVal(dex_header.data_off) + WordVal(dex_header.data_size)

\* a string reader has returned strings only for offsets of the data section
DecodedOnlyInData ==
    (pc \in StringReaders /\ ret.kind = "Ok") => \A o \in DecodedAt : InDataSection(o)

\* a whole file whose string offset lies in the data section is read
DataOffsetAccepted ==
    (/\ pc \in StringReaders
     /\ Len(image) = 152
     /\ InDataSection(BytesAt(image, WordVal(dex_header.string_ids_off), 4)))
       => ret.kind = "Ok"

\* C13: every string_id offset at which a string reader has decoded string
\* data lies in the data section, data_off <= o < data_off + data_size; and an
\* offset equal to data_off counts as inside, so the file is read.
C13_StringOffsetsInDataSection == DecodedOnlyInData /\ DataOffsetAccepted


\* C14: EncodedValue::from_reader returns every fault of its input (an unknown
\* value type, a malformed LEB128 number, a missing byte) as an error value:
\* whatever the bytes, it ends with Ok or Err, never with a panic.
C14_FaultsAreErrorValues ==
    pc = "done" => ret.kind \in {"Ok", "Err"}


\* C15: parse_call_side_item parses the call_site_items of a file that has
\* them and returns them: a call_site_id_item entry in the map never aborts
\* the parse.
C15_CallSiteDataParsed ==
    (pc = "call_side_item" /\ find_type_in_map(map_list, 7) # <<>>)
       => ret.kind \in {"Ok", "Err"}

---------------------------------------------------------------------------
(* The MUTF-8 encoding of code units, as the format defines it.            *)

\* one byte for 0x01-0x7F, two for 0x00 and 0x80-0x7FF, three otherwise
EncodeUnit(u) ==
    IF 1 <= u /\ u <= 127 THEN <<u>>
    ELSE IF u <= 2047 THEN <<192 + (u \div 64), 128 + (u % 64)>>
    ELSE <<224 + (u \div 4096), 128 + ((u \div 64) % 64), 128 + (u % 64)>>

RECURSIVE EncodeUnits(_)
EncodeUnits(v) == IF v = <<>> THEN <<>> ELSE EncodeUnit(v[1]) \o EncodeUnits(Tail(v))

\* the decoder has accepted the stream: it came to the terminator and
\* returned the string of the code units in its buffer
DecodedToEnd ==
    /\ pc = "done"
    /\ ret.kind = "Ok"
    /\ pos = FirstZero(image)

\* C16: re-encoding the code units the decoder produced for a stream gives the
\* bytes of the stream back, so no two different streams decode to the same
\* code units.
C16_RoundTrip ==
    DecodedToEnd => EncodeUnits(OutPrefix(out, s)) = Body(image)

\* C17: the final conversion of the code units to text is total: a decoded
\* stream of well-formed groups, the declared count right, always returns a
\* string, an unpaired surrogate among its code units included.
C17_TextConversionTotal ==
    (/\ pc = "done"
     /\ WellFormedStream(image)
     /\ Len(GroupUnits(Body(image))) = size)
    => ret.kind = "Ok"

\* the error of the first malformed group of the bytes b, which start at a
\* group; "none" when the groups are well formed up to the terminator or to
\* the end of the bytes
RECURSIVE Malformation(_)
Malformation(b) ==
    IF b = <<>> \/ b[1] = 0 THEN "none"
    ELSE IF IsLead1(b[1]) THEN Malformation(Tail(b))
    ELSE IF IsLead2(b[1])
         THEN IF Len(b) < 2 THEN "none"
              ELSE IF ~IsCont(b[2]) THEN "BadSecondByte"
              ELSE Malformation(SubSeq(b, 3, Len(b)))
    ELSE IF IsLead3(b[1])
         THEN IF Len(b) < 3 THEN "none"
              ELSE IF ~IsCont(b[2]) \/ ~IsCont(b[3]) THEN "BadSecondThirdByte"
              ELSE Malformation(SubSeq(b, 4, Len(b)))
    ELSE "BadByte"

\* C18: on a stream with a malformed group to_string fails with the error of
\* the first malformed group (BadSecondByte, BadSecondThirdByte, or the bad
\* lead byte error) and returns no string, whatever was decoded before it.
C18_MalformedGroupFails ==
    (pc = "done" /\ Malformation(image) # "none")
    => ret = Err(<<>>, Malformation(image))

---------------------------------------------------------------------------
(* The state-machine program of a debug_info_item, as the format defines   *)
(* it: opcodes with their LEB128 operands, ended by DBG_END_SEQUENCE.      *)

\* the position after the LEB128 number at p, -1 when the file ends in it
RECURSIVE LebEnd(_, _)
LebEnd(img, p) ==
    IF p < 0 \/ p >= Len(img) THEN 0 - 1
    ELSE IF img[p + 1] < 128 THEN p + 1
    ELSE LebEnd(img, p + 1)

\* the position after n LEB128 numbers
RECURSIVE LebsEnd(_, _, _)
LebsEnd(img, p, n) == IF n = 0 \/ p < 0 THEN p ELSE LebsEnd(img, LebEnd(img, p), n - 1)

\* the number of LEB128 operands of an opcode
Operands(op) ==
    CASE op \in {1, 2, 5, 6, 9} -> 1
      [] op = 3 -> 3
      [] op = 4 -> 4
      [] OTHER -> 0

\* the position of the DBG_END_SEQUENCE opcode of the program at p, -1 when
\* the file ends before it
RECURSIVE EndSequence(_, _)
EndSequence(img, p) ==
    IF p < 0 \/ p >= Len(img) THEN 0 - 1
    ELSE IF img[p + 1] = 0 THEN p
    ELSE EndSequence(img, LebsEnd(img, p + 1, Operands(img[p + 1])))

\* where the program of the debug_info_item at p starts: after line_start,
\* parameters_size and the parameter names
ProgramStart(img, p) ==
    IF LebEnd(img, p) < 0 \/ LebEnd(img, LebEnd(img, p)) < 0 THEN 0 - 1
    ELSE LebsEnd(img, LebEnd(img, LebEnd(img, p)),
                 read_unsigned(img, LebEnd(img, p)).val)

\* in place of a program that the file does not hold whole
Truncated == <<0 - 1>>

\* the programs of the n debug_info_items from p on, terminator left out
RECURSIVE Programs(_, _, _)
Programs(img, p, n) ==
    IF n = 0 THEN <<>>
    ELSE IF EndSequence(img, ProgramStart(img, p)) < 0 THEN <<Truncated>>
    ELSE <<Slice(img, ProgramStart(img, p),
                  EndSequence(img, ProgramStart(img, p)) - ProgramStart(img, p))>>
         \o Programs(img, EndSequence(img, ProgramStart(img, p)) + 1, n - 1)

\* the debug_info_item entry of the map
DebugEntry == find_type_in_map(map_list, 8195)

\* the programs of the file, by the format
FilePrograms ==
    Programs(image, WordVal(DebugEntry[1].offset), WordVal(DebugEntry[1].size))

\* C19: for a file that holds its debug_info_items whole, parse_debug_info
\* returns, for every item, the whole state-machine program up to its
\* DBG_END_SEQUENCE in state_machine_bytes: operand bytes 0x00 are part of it,
\* and the next item is read from right after the terminating opcode.
C19_WholeProgramCaptured ==
    (/\ pc = "debug_info"
     /\ DebugEntry # <<>>
     /\ \A i \in 1..Len(FilePrograms) : FilePrograms[i] # Truncated)
    => /\ ret.kind = "Ok"
       /\ Len(ret.val) = Len(FilePrograms)
       /\ \A i \in 1..Len(ret.val) : ret.val[i].state_machine_bytes = FilePrograms[i]

---------------------------------------------------------------------------
(* The alignment of code_items.                                            *)

\* the offset of the code section in the map
CodeOffset == WordVal(find_type_in_map(map_list, 8193)[1].offset)

\* the loop of parse_code_items stands after a code_item and its padding
AfterCodeItem == pc = "item" /\ s > 0

\* C20: when the code section starts at a multiple of 4, the padding skipped
\* after a code_item, of any shape, is 0 to 3 bytes long, and the reader
\* stands at a multiple of 4 where the next code_item is read.
C20_NextItemAligned ==
    (AfterCodeItem /\ CodeOffset % 4 = 0)
    => (Len(out) \in 0..3 /\ (s < size => pos % 4 = 0))

---------------------------------------------------------------------------
(* The encoded_catch_handler_list of a code_item, as the format defines    *)
(* it, read from the bytes of the file.                                    *)

\* the code_item the loop has just read, and where it started
LastCodeItem == tables[Len(tables)].val

\* tries_size and insns_size of the code_item at p
TriesSizeAt(img, p) == img[p + 7] + 256 * img[p + 8]
InsnsSizeAt(img, p) == WordVal(BytesAt(img, p + 12, 4))

\* where the bytes after the tries of the code_item at p start: the header,
\* the code units, two bytes when there are tries and the units are odd in
\* number, 8 bytes per try
AfterTries(img, p) ==
    p + 16 + 2 * InsnsSizeAt(img, p)
      + (IF TriesSizeAt(img, p) # 0 /\ InsnsSizeAt(img, p) % 2 = 1 THEN 2 ELSE 0)
      + 8 * TriesSizeAt(img, p)

\* the sleb128 size of the encoded_catch_handler at p
HandlerSize(img, p) == read_signed(img, p).val

\* size <= 0
NotPositive(sz) == sz.neg \/ sz.abs = 0

\* the position after the encoded_catch_handler at p: its size, |size| pairs,
\* and a catch_all_addr when size <= 0
HandlerEnd(img, p) ==
    IF NotPositive(HandlerSize(img, p))
      THEN LebEnd(img, LebsEnd(img, LebEnd(img, p), 2 * HandlerSize(img, p).abs))
      ELSE LebsEnd(img, LebEnd(img, p), 2 * HandlerSize(img, p).abs)

\* the positions of the n encoded_catch_handlers from p on, and after them
\* the position where the list ends
RECURSIVE HandlerStarts(_, _, _)
HandlerStarts(img, p, n) ==
    IF n = 0 THEN <<p>> ELSE <<p>> \o HandlerStarts(img, HandlerEnd(img, p), n - 1)

\* the list of the code_item at p: the positions of its handlers and its end
HandlerListAt(img, p) ==
    HandlerStarts(img, LebEnd(img, AfterTries(img, p)),
                  read_unsigned(img, AfterTries(img, p)).val)

\* the loop has read a code_item whose header the file holds whole
CodeItemRead == AfterCodeItem /\ start + 16 <= Len(image)

\* C21: a code_item that parse_code_items has read has an
\* encoded_catch_handler_list iff its tries_size is not 0: without tries no
\* byte is read after the code units; with tries the list is read to its
\* end, and each encoded_catch_handler of sleb128 size sz holds |sz| pairs and
\* a catch_all_addr exactly when sz <= 0.
C21_CatchHandlerShape ==
    CodeItemRead =>
      IF TriesSizeAt(image, start) = 0
        THEN /\ LastCodeItem.handlers = <<>>
             /\ pos - Len(out) = Min(AfterTries(image, start), Len(image))
        ELSE /\ Len(LastCodeItem.handlers) + 1 = Len(HandlerListAt(image, start))
             /\ pos - Len(out) = HandlerListAt(image, start)[Len(LastCodeItem.handlers) + 1]
             /\ \A i \in 1..Len(LastCodeItem.handlers) :
                  /\ Len(LastCodeItem.handlers[i].handlers)
                       = HandlerSize(image, HandlerListAt(image, start)[i]).abs
                  /\ (LastCodeItem.handlers[i].catch_all_addr # <<>>)
                       <=> NotPositive(HandlerSize(image, HandlerListAt(image, start)[i]))

\* a code_item with a try whose one handler has size -1: one pair and a
\* catch_all_addr
C21_Witness ==
    /\ CodeItemRead
    /\ TriesSizeAt(image, start) = 1
    /\ Len(LastCodeItem.handlers) = 1
    /\ HandlerSize(image, HandlerListAt(image, start)[1]) = Signed(TRUE, 1)
    /\ Len(LastCodeItem.handlers[1].handlers) = 1
    /\ LastCodeItem.handlers[1].catch_all_addr = <<4>>

---------------------------------------------------------------------------
(* The type_lists.                                                         *)

\* the offset of the type_list section in the map
TypeListOffset == WordVal(find_type_in_map(map_list, 4097)[1].offset)

\* the loop of parse_type_lists stands after a type_list
AfterTypeList == pc = "type_list" /\ s > 0

\* the bytes a type_list of n indices takes: size, indices, padding
TypeListLength(n) == 4 + 2 * n + (IF n % 2 = 1 THEN 2 ELSE 0)

\* C22: a type_list that parse_type_lists has read holds its n type indices
\* in order and has taken 4 + 2n bytes, and 2 more iff n is odd; so when the
\* section starts at a multiple of 4 the next type_list starts at one.
C22_TypeListLength ==
    AfterTypeList
    => /\ pos - start = TypeListLength(Len(out))
       /\ \A i \in 1..Len(out) : out[i] = u16_from_le_bytes(ReadBuf(image, start + 2 + 2 * i, 2))
       /\ (TypeListOffset % 4 = 0 /\ s < size) => pos % 4 = 0

---------------------------------------------------------------------------
(* The tables a file may leave out.                                        *)

\* every offset of the item is 0: none of its classes has flags
NoClassHasFlags(item) == \A i \in 1..Len(item.offsets) : WordVal(item.offsets[i]) = 0

\* C23: parse_hiddenapi_class_data reads a flag sequence only for the
\* class-defs whose offset is not 0: an item that it returns with all its
\* offsets 0 has no flags.
C23_FlagsOnlyAtOffsets ==
    (pc = "hiddenapi_class_data" /\ ret.kind = "Ok")
    => \A i \in 1..Len(ret.val) : NoClassHasFlags(ret.val[i]) => ret.val[i].flags = <<>>

\* the three readers, by the place the model is in once they returned, with
\* the item type each one looks for
OptionalReaders ==
    {<<"call_side_ids", 7>>, <<"method_handles", 8>>, <<"hiddenapi_class_data", 61440>>}

\* C24: without an entry of its item type in the map, each of
\* parse_call_side_ids, parse_method_handles and parse_hiddenapi_class_data
\* returns an empty table without error and leaves the reader where it stood;
\* with the entry, a table it returns has exactly as many items as the entry
\* says and was read from the entry's offset.
C24_AbsentTableIsEmpty ==
    \A r \in OptionalReaders :
        pc = r[1] =>
          IF find_type_in_map(map_list, r[2]) = <<>>
            THEN ret = Ok(<<>>) /\ pos = start
            ELSE ret.kind = "Ok" =>
                   /\ Len(ret.val) = WordVal(find_type_in_map(map_list, r[2])[1].size)
                   /\ pos >= WordVal(find_type_in_map(map_list, r[2])[1].offset)
                   /\ Len(ret.val) = 0
                        => pos = WordVal(find_type_in_map(map_list, r[2])[1].offset)
                   /\ r[2] = 7 =>
                        \A i \in 1..Len(ret.val) :
                           ret.val[i] = ReadBuf(image,
                               WordVal(find_type_in_map(map_list, 7)[1].offset) + 4 * (i - 1), 4)

\* parse_method_handles on a map without a method_handle_item entry, the
\* reader at position 3 before and after
C24_Witness ==
    /\ pc = "method_handles"
    /\ find_type_in_map(map_list, 8) = <<>>
    /\ start = 3
    /\ pos = 3
    /\ ret = Ok(<<>>)
=============================================================================
